---------------------------- MODULE Spec2Model ----------------------------
(***************************************************************************)
(* Field-visit enrichment of Ecodat: protocol-code extraction, the time    *)
(* suggestion engine and the manual-review flagger of                      *)
(* src/geocode_utils.py, with the timestamp normaliser of                  *)
(* src/unnamed/part_000 (fieldvisit_utils).                                *)
(*                                                                         *)
(* Representation.                                                         *)
(*  - A timezone-aware local datetime is the number of seconds of its      *)
(*    Europe/Amsterdam wall clock since 00:00:00 of day 0.  The zone's UTC *)
(*    offset is taken as the constant UtcOffset: no daylight-saving        *)
(*    transition falls inside the modelled days, so comparing wall clocks  *)
(*    is comparing instants and timedelta arithmetic is integer addition.  *)
(*  - None is the integer None (-1); every datetime is >= 0.               *)
(*  - A raw cell (Startdatum, Einddatum, sunrise, sunset) is a record      *)
(*    [tz, t]: tz is "naive", "utc" or "local" for a timestamp whose own   *)
(*    wall clock reads t, "none" for None and NaN (and NaT where only      *)
(*    pd.isna looks at it), "nat" for the pd.NaT of a datetime column,     *)
(*    and "text" for a value that is present but no timestamp: the empty   *)
(*    string, a string that does not parse, a value of another type.       *)
(*  - Raised (-2) stands for an exception leaving parse_local.             *)
(*  - A string is a sequence of one-character strings; the Python None in  *)
(*    a string column is NoneStr.                                          *)
(*  - duur_suggest is <<seconds, SecondsPerHour>>, the exact quotient      *)
(*    seconds / 3600.0 hours, and <<>> for NaN.                            *)
(***************************************************************************)
EXTENDS Integers, Sequences, FiniteSets, TLC

VARIABLES
    row,        \* the input row: Naam, Startdatum, Einddatum, sunrise, sunset
    out,        \* the columns get_fieldvisit_time_suggest adds to the row
    check_data, \* the column flag_fieldtime_changes adds: "yes", "no", "" before
    pc,         \* "input" -> "suggested" -> "flagged"
    napply      \* how many times the engine was run on its own output

vars == <<row, out, check_data, pc, napply>>

---------------------------------------------------------------------------
(* Time arithmetic *)

None == -1

SecondsPerMinute == 60

SecondsPerHour == 3600

SecondsPerDay == 86400

\* Europe/Amsterdam standard time (CET) is UTC+1
UtcOffset == 3600

HMS(h, m, s) == h * SecondsPerHour + m * SecondsPerMinute + s

\* datetime(day d, h:m:s)
DT(d, h, m, s) == d * SecondsPerDay + HMS(h, m, s)

\* timedelta(hours=h), timedelta(minutes=m), timedelta(days=d)
timedelta_hours(h) == h * SecondsPerHour

timedelta_minutes(m) == m * SecondsPerMinute

timedelta_days(d) == d * SecondsPerDay

\* datetime.hour, datetime.minute, datetime.date()
hour(dt) == (dt % SecondsPerDay) \div SecondsPerHour

minute(dt) == (dt % SecondsPerHour) \div SecondsPerMinute

date(dt) == dt \div SecondsPerDay

\* update_time(dt, hour, minute, second) = dt.replace(hour, minute, second):
\* the date is kept, the three clock fields are replaced
update_time(dt, h, m, s) == date(dt) * SecondsPerDay + HMS(h, m, s)

---------------------------------------------------------------------------
(* Timestamp normaliser *)

\* an exception that leaves the function
Raised == -2

\* the last day of the calendar, 9999-12-31, in the day numbers of the
\* model, and datetime.max, its last second
LastDay == 9999

datetime_max == LastDay * SecondsPerDay + (SecondsPerDay - 1)

\* parse_local that takes a naive timestamp as UTC, as to_local does
parse_localNaiveAsUTC(x) ==
    CASE x.tz = "naive" -> x.t + UtcOffset
      [] x.tz = "utc"   -> x.t + UtcOffset
      [] x.tz = "local" -> x.t
      [] OTHER          -> None

\* parse_local: a naive timestamp keeps its wall clock (tz.localize), an
\* aware one is converted to the local zone (tz_convert, astimezone), both
\* outside any try; a string is parsed inside one; anything else gives None.
\* tz.localize adds a day to the datetime and astimezone adds the offset:
\* OverflowError past datetime.max.  pd.NaT is a datetime without tzinfo,
\* and tz.localize raises ValueError for it.
parse_local(x) ==
    CASE x.tz = "naive" -> IF x.t \div SecondsPerDay >= LastDay THEN Raised ELSE x.t
      [] x.tz = "utc"   -> IF x.t + UtcOffset > datetime_max THEN Raised ELSE x.t + UtcOffset
      [] x.tz = "local" -> x.t
      [] x.tz = "nat"   -> Raised
      [] OTHER          -> None

\* to_local: a naive timestamp is taken as UTC (pytz.UTC.localize) and then
\* converted; an aware one is converted; astimezone is inside a try that
\* returns None, also for pd.NaT
to_local(x) ==
    CASE x.tz = "naive" -> IF x.t + UtcOffset > datetime_max THEN None ELSE x.t + UtcOffset
      [] x.tz = "utc"   -> IF x.t + UtcOffset > datetime_max THEN None ELSE x.t + UtcOffset
      [] x.tz = "local" -> x.t
      [] OTHER          -> None

\* pd.isna(x) of a raw cell
isna(x) == x.tz = "none" \/ x.tz = "nat"

\* lambda x: to_local(x) if not pd.isna(x) else None
anchor_local(x) == IF ~isna(x) THEN to_local(x) ELSE None

---------------------------------------------------------------------------
(* Strings *)

NoneStr == <<"<None>">>

LowerChars == <<"a", "b", "c", "d", "e", "f", "g", "h", "i", "j", "k", "l", "m",
                "n", "o", "p", "q", "r", "s", "t", "u", "v", "w", "x", "y", "z">>

UpperChars == <<"A", "B", "C", "D", "E", "F", "G", "H", "I", "J", "K", "L", "M",
                "N", "O", "P", "Q", "R", "S", "T", "U", "V", "W", "X", "Y", "Z">>

Digits == {"0", "1", "2", "3", "4", "5", "6", "7", "8", "9"}

IsLower(c) == \E i \in 1..Len(LowerChars) : LowerChars[i] = c

IsUpper(c) == \E i \in 1..Len(UpperChars) : UpperChars[i] = c

LowerChar(c) ==
    IF IsUpper(c)
    THEN LowerChars[CHOOSE i \in 1..Len(UpperChars) : UpperChars[i] = c]
    ELSE c

UpperChar(c) ==
    IF IsLower(c)
    THEN UpperChars[CHOOSE i \in 1..Len(LowerChars) : LowerChars[i] = c]
    ELSE c

\* str.lower(), str.upper()
lower(s) == [i \in 1..Len(s) |-> LowerChar(s[i])]

upper(s) == [i \in 1..Len(s) |-> UpperChar(s[i])]

\* the character at position i, "" past the end
At(s, i) == IF i >= 1 /\ i <= Len(s) THEN s[i] ELSE ""

\* s has the literal lit at position i
LitAt(s, i, lit) == \A k \in 1..Len(lit) : At(s, i + k - 1) = lit[k]

\* str.startswith(prefix)
startswith(s, prefix) == LitAt(s, 1, prefix)

\* number of characters of the longest run of characters of set cs at i
RunLen(s, i, cs) ==
    Cardinality({k \in i..Len(s) : \A j \in i..k : s[j] \in cs})

RECURSIVE RemoveChars(_, _)
\* str.replace(c, "") for every c of cs
RemoveChars(s, cs) ==
    IF s = <<>> THEN <<>>
    ELSE IF Head(s) \in cs THEN RemoveChars(Tail(s), cs)
    ELSE <<Head(s)>> \o RemoveChars(Tail(s), cs)

\* a regular-expression word character (\w)
IsWordChar(c) == IsLower(c) \/ IsUpper(c) \/ c \in Digits \/ c = "_"


---------------------------------------------------------------------------
(* Protocol code extractor *)

\* length of the match of  [vzwh]m[- ]?\d+|gz|zr|hm|uitvliegtelling  at
\* position i of the lower-cased name, 0 when there is none.  The
\* alternatives are tried in the written order, \d+ is greedy, and the
\* optional separator is given up when no digit follows it.
ProjectMatchLen(s, i) ==
    IF /\ At(s, i) \in {"v", "z", "w", "h"}
       /\ At(s, i + 1) = "m"
       /\ At(s, i + 2) \in {"-", " "}
       /\ RunLen(s, i + 3, Digits) > 0
    THEN 3 + RunLen(s, i + 3, Digits)
    ELSE IF /\ At(s, i) \in {"v", "z", "w", "h"}
            /\ At(s, i + 1) = "m"
            /\ RunLen(s, i + 2, Digits) > 0
    THEN 2 + RunLen(s, i + 2, Digits)
    ELSE IF LitAt(s, i, <<"g", "z">>) THEN 2
    ELSE IF LitAt(s, i, <<"z", "r">>) THEN 2
    ELSE IF LitAt(s, i, <<"h", "m">>) THEN 2
    ELSE IF LitAt(s, i, <<"u", "i", "t", "v", "l", "i", "e", "g", "t", "e", "l", "l", "i", "n", "g">>) THEN 15
    ELSE 0

\* VM single digit codes get a leading zero: re.match(r"VM(\d)$", project)
PadVM(project) ==
    IF Len(project) = 3 /\ LitAt(project, 1, <<"V", "M">>) /\ project[3] \in Digits
    THEN <<"V", "M", "0", project[3]>>
    ELSE project

\* project.replace("WM", "VM", 1) when project.startswith("WM")
WMtoVM(project) ==
    IF startswith(project, <<"W", "M">>)
    THEN <<"V", "M">> \o SubSeq(project, 3, Len(project))
    ELSE project

\* the project code of a lower-cased name: the leftmost match, upper-cased,
\* separators removed, padded, and only then the WM prefix rewritten
extract_project(name_lower) ==
    LET hits == {i \in 1..Len(name_lower) : ProjectMatchLen(name_lower, i) > 0}
    IN  IF hits = {} THEN NoneStr
        ELSE LET i == CHOOSE k \in hits : \A j \in hits : k <= j
                 g == SubSeq(name_lower, i, i + ProjectMatchLen(name_lower, i) - 1)
             IN  WMtoVM(PadVM(RemoveChars(upper(g), {" ", "-"})))

\* the position of the leftmost match of  \b(avond|ochtend)  and 0 if none
DagdeelPos(s) ==
    LET hits == {i \in 1..Len(s) :
                    /\ LitAt(s, i, <<"a", "v", "o", "n", "d">>) \/ LitAt(s, i, <<"o", "c", "h", "t", "e", "n", "d">>)
                    /\ ~IsWordChar(At(s, i - 1))}
    IN  IF hits = {} THEN 0 ELSE CHOOSE k \in hits : \A j \in hits : k <= j

Whitespace == {" "}

RECURSIVE StripLeadingZeros(_)
\* str(int(n_raw)) of a run of digits
StripLeadingZeros(ds) ==
    IF Len(ds) > 1 /\ Head(ds) = "0" THEN StripLeadingZeros(Tail(ds)) ELSE ds

\* the day part of a lower-cased name:  \s*([0-9]+|I{1,3})?  after the kind,
\* matched ignoring case, so the numeral is a run of at most three "i"
extract_dagdeel(s) ==
    LET p == DagdeelPos(s)
        t == IF LitAt(s, p, <<"a", "v", "o", "n", "d">>) THEN <<"a", "v", "o", "n", "d">> ELSE <<"o", "c", "h", "t", "e", "n", "d">>
        q == p + Len(t) + RunLen(s, p + Len(t), Whitespace)
        nd == RunLen(s, q, Digits)
        ni == IF RunLen(s, q, {"i"}) > 3 THEN 3 ELSE RunLen(s, q, {"i"})
        n_norm == IF nd > 0 THEN StripLeadingZeros(SubSeq(s, q, q + nd - 1))
                  ELSE IF ni = 1 THEN <<"1">>
                  ELSE IF ni = 2 THEN <<"2">>
                  ELSE IF ni = 3 THEN <<"3">>
                  ELSE <<>>
    IN  IF p = 0 THEN NoneStr
        ELSE IF n_norm # <<>> THEN t \o <<" ">> \o n_norm
        ELSE t

\* extract_project_and_daypart that looks for a day part only in a name that
\* has a project code
extract_project_and_daypartCodeFirst(name) ==
    IF name = NoneStr \/ name = <<>> THEN <<NoneStr, NoneStr>>
    ELSE IF extract_project(lower(name)) = NoneStr THEN <<NoneStr, NoneStr>>
    ELSE <<extract_project(lower(name)), extract_dagdeel(lower(name))>>

\* _extract_project_and_daypart(name) = <<project, dagdeel>>
extract_project_and_daypart(name) ==
    IF name = NoneStr \/ name = <<>> THEN <<NoneStr, NoneStr>>
    ELSE <<extract_project(lower(name)), extract_dagdeel(lower(name))>>

---------------------------------------------------------------------------
(* Time suggestion engine: the body of the row loop of
   get_fieldvisit_time_suggest.  Each rule takes and returns the pair
   [start, end] the previous rule left. *)

\* re.fullmatch(code, proj, flags=re.IGNORECASE)
fullmatch(code, proj) == upper(proj) = code

\* re.search(code, proj, flags=re.IGNORECASE)
search(code, proj) == \E i \in 1..Len(proj) : LitAt(upper(proj), i, code)

\* row.get(col) or ""
OrEmpty(s) == IF s = NoneStr THEN <<>> ELSE s

\* VM01_evening with the lower bound of the start window and the upper bound
\* of the end window exclusive
VM01_eveningExclusive(se, sunset_local) ==
    LET three_h == sunset_local + timedelta_hours(3)
        four_h  == sunset_local + timedelta_hours(4)
        start   == IF /\ se.start # None /\ sunset_local # None
                      /\ \/ se.start > sunset_local
                         \/ se.start <= sunset_local - timedelta_hours(1)
                   THEN sunset_local ELSE se.start
        end     == IF /\ se.end # None /\ sunset_local # None
                      /\ (se.end < three_h \/ se.end >= four_h)
                   THEN three_h ELSE se.end
    IN  [start |-> start, end |-> end]

\* VM01_evening that also snaps a missing start or end, as the rule table of
\* the specification reads
VM01_eveningSnapNull(se, sunset_local) ==
    LET three_h == sunset_local + timedelta_hours(3)
        four_h  == sunset_local + timedelta_hours(4)
        start   == IF /\ sunset_local # None
                      /\ \/ se.start = None
                         \/ se.start > sunset_local
                         \/ se.start < sunset_local - timedelta_hours(1)
                   THEN sunset_local ELSE se.start
        end     == IF /\ sunset_local # None
                      /\ (se.end = None \/ se.end < three_h \/ se.end > four_h)
                   THEN three_h ELSE se.end
    IN  [start |-> start, end |-> end]

\* VM01_evening without the test that the sunset is present
VM01_eveningNoAnchorTest(se, sunset_local) ==
    LET three_h == sunset_local + timedelta_hours(3)
        four_h  == sunset_local + timedelta_hours(4)
        start   == IF /\ se.start # None
                      /\ \/ se.start > sunset_local
                         \/ se.start < sunset_local - timedelta_hours(1)
                   THEN sunset_local ELSE se.start
        end     == IF /\ se.end # None
                      /\ (se.end < three_h \/ se.end > four_h)
                   THEN three_h ELSE se.end
    IN  [start |-> start, end |-> end]

\* Evening adjustments for VM01
VM01_evening(se, sunset_local) ==
    LET three_h == sunset_local + timedelta_hours(3)
        four_h  == sunset_local + timedelta_hours(4)
        start   == IF /\ se.start # None /\ sunset_local # None
                      /\ \/ se.start > sunset_local
                         \/ se.start < sunset_local - timedelta_hours(1)
                   THEN sunset_local ELSE se.start
        end     == IF /\ se.end # None /\ sunset_local # None
                      /\ (se.end < three_h \/ se.end > four_h)
                   THEN three_h ELSE se.end
    IN  [start |-> start, end |-> end]

\* VM01_morning that snaps the end to the far bound of its window
VM01_morningFarEnd(se, sunrise_local) ==
    LET start_of_window == sunrise_local
        end_of_window   == sunrise_local + timedelta_hours(4)
        start_window    == sunrise_local - timedelta_hours(4)
        end_window      == sunrise_local - timedelta_hours(3)
        end     == IF /\ se.end # None /\ sunrise_local # None
                      /\ (se.end < start_of_window \/ se.end > end_of_window)
                   THEN end_of_window ELSE se.end
        start   == IF /\ se.start # None /\ sunrise_local # None
                      /\ (se.start < start_window \/ se.start > end_window)
                   THEN sunrise_local - timedelta_hours(3) ELSE se.start
    IN  [start |-> start, end |-> end]

\* Morning adjustments for VM01
VM01_morning(se, sunrise_local) ==
    LET start_of_window == sunrise_local
        end_of_window   == sunrise_local + timedelta_hours(4)
        start_window    == sunrise_local - timedelta_hours(4)
        end_window      == sunrise_local - timedelta_hours(3)
        end     == IF /\ se.end # None /\ sunrise_local # None
                      /\ (se.end < start_of_window \/ se.end > end_of_window)
                   THEN start_of_window ELSE se.end
        start   == IF /\ se.start # None /\ sunrise_local # None
                      /\ (se.start < start_window \/ se.start > end_window)
                   THEN sunrise_local - timedelta_hours(3) ELSE se.start
    IN  [start |-> start, end |-> end]

\* VM02_evening with the rollover decided against the reported start, before
\* its clamp
VM02_eveningRollEarly(se) ==
    LET lower_   == 22 * 60 + 59
        upper_   == 23 * 60 + 59
        start_min == hour(se.start) * 60 + minute(se.start)
        start    == IF se.start # None /\ (start_min < lower_ \/ start_min > upper_)
                    THEN update_time(se.start, 23, 59, 0) ELSE se.start
        end1     == IF se.start # None /\ se.end # None /\ se.end <= se.start
                    THEN se.end + timedelta_days(1) ELSE se.end
        end_min  == hour(end1) * 60 + minute(end1)
        end      == IF end1 # None /\ end_min < 2 * 60 THEN update_time(end1, 2, 0, 0)
                    ELSE IF end1 # None /\ end_min > 3 * 60 THEN update_time(end1, 3, 0, 0)
                    ELSE end1
    IN  [start |-> start, end |-> end]

\* VM02_evening with the rollover decided on the clock times alone
\* (end.time() <= start.time())
VM02_eveningRollByClock(se) ==
    LET lower_   == 22 * 60 + 59
        upper_   == 23 * 60 + 59
        start_min == hour(se.start) * 60 + minute(se.start)
        start    == IF se.start # None /\ (start_min < lower_ \/ start_min > upper_)
                    THEN update_time(se.start, 23, 59, 0) ELSE se.start
        end1     == IF start # None /\ se.end # None
                       /\ se.end % SecondsPerDay <= start % SecondsPerDay
                    THEN se.end + timedelta_days(1) ELSE se.end
        end_min  == hour(end1) * 60 + minute(end1)
        end      == IF end1 # None /\ end_min < 2 * 60 THEN update_time(end1, 2, 0, 0)
                    ELSE IF end1 # None /\ end_min > 3 * 60 THEN update_time(end1, 3, 0, 0)
                    ELSE end1
    IN  [start |-> start, end |-> end]

\* VM02_evening with 23:00 as the lower bound of the start window
VM02_eveningLateLower(se) ==
    LET lower_   == 23 * 60
        upper_   == 23 * 60 + 59
        start_min == hour(se.start) * 60 + minute(se.start)
        start    == IF se.start # None /\ (start_min < lower_ \/ start_min > upper_)
                    THEN update_time(se.start, 23, 59, 0) ELSE se.start
        end1     == IF start # None /\ se.end # None /\ se.end <= start
                    THEN se.end + timedelta_days(1) ELSE se.end
        end_min  == hour(end1) * 60 + minute(end1)
        end      == IF end1 # None /\ end_min < 2 * 60 THEN update_time(end1, 2, 0, 0)
                    ELSE IF end1 # None /\ end_min > 3 * 60 THEN update_time(end1, 3, 0, 0)
                    ELSE end1
    IN  [start |-> start, end |-> end]

\* VM02 evening rules: the start clamp, then the rollover against the
\* clamped start, then the end clamp on the rolled-over end
VM02_evening(se) ==
    LET lower_   == 22 * 60 + 59
        upper_   == 23 * 60 + 59
        start_min == hour(se.start) * 60 + minute(se.start)
        start    == IF se.start # None /\ (start_min < lower_ \/ start_min > upper_)
                    THEN update_time(se.start, 23, 59, 0) ELSE se.start
        end1     == IF start # None /\ se.end # None /\ se.end <= start
                    THEN se.end + timedelta_days(1) ELSE se.end
        end_min  == hour(end1) * 60 + minute(end1)
        end      == IF end1 # None /\ end_min < 2 * 60 THEN update_time(end1, 2, 0, 0)
                    ELSE IF end1 # None /\ end_min > 3 * 60 THEN update_time(end1, 3, 0, 0)
                    ELSE end1
    IN  [start |-> start, end |-> end]

\* GZ_rule that snaps the end to the far bound of its window
GZ_ruleFarEnd(se, sunset_local) ==
    LET lower_s == sunset_local - timedelta_minutes(150)
        upper_s == sunset_local - timedelta_minutes(90)
        lower_e == sunset_local + timedelta_minutes(30)
        upper_e == sunset_local + timedelta_minutes(90)
        start == IF /\ se.start # None /\ sunset_local # None
                    /\ (se.start > upper_s \/ se.start < lower_s)
                 THEN sunset_local - timedelta_minutes(90) ELSE se.start
        end   == IF /\ se.end # None /\ sunset_local # None
                    /\ (se.end < lower_e \/ se.end > upper_e)
                 THEN sunset_local + timedelta_minutes(90) ELSE se.end
    IN  [start |-> start, end |-> end]

\* GZ_rule that snaps to the bound nearest to the reported time
GZ_ruleNearest(se, sunset_local) ==
    LET lower_s == sunset_local - timedelta_minutes(150)
        upper_s == sunset_local - timedelta_minutes(90)
        lower_e == sunset_local + timedelta_minutes(30)
        upper_e == sunset_local + timedelta_minutes(90)
        start == IF se.start # None /\ sunset_local # None /\ se.start > upper_s
                 THEN upper_s
                 ELSE IF se.start # None /\ sunset_local # None /\ se.start < lower_s
                 THEN lower_s ELSE se.start
        end   == IF se.end # None /\ sunset_local # None /\ se.end < lower_e
                 THEN lower_e
                 ELSE IF se.end # None /\ sunset_local # None /\ se.end > upper_e
                 THEN upper_e ELSE se.end
    IN  [start |-> start, end |-> end]

\* GZ projects: evening relative to sunset
GZ_rule(se, sunset_local) ==
    LET lower_s == sunset_local - timedelta_minutes(150)
        upper_s == sunset_local - timedelta_minutes(90)
        lower_e == sunset_local + timedelta_minutes(30)
        upper_e == sunset_local + timedelta_minutes(90)
        start == IF /\ se.start # None /\ sunset_local # None
                    /\ (se.start > upper_s \/ se.start < lower_s)
                 THEN sunset_local - timedelta_minutes(90) ELSE se.start
        end   == IF /\ se.end # None /\ sunset_local # None
                    /\ (se.end < lower_e \/ se.end > upper_e)
                 THEN sunset_local + timedelta_minutes(30) ELSE se.end
    IN  [start |-> start, end |-> end]

\* ZR projects: morning relative to sunrise
ZR_rule(se, sunrise_local) ==
    LET lower_s == sunrise_local - timedelta_minutes(150)
        upper_s == sunrise_local - timedelta_minutes(90)
        lower_e == sunrise_local + timedelta_minutes(30)
        upper_e == sunrise_local + timedelta_minutes(90)
        start == IF /\ se.start # None /\ sunrise_local # None
                    /\ (se.start > upper_s \/ se.start < lower_s)
                 THEN sunrise_local - timedelta_minutes(90) ELSE se.start
        end   == IF /\ se.end # None /\ sunrise_local # None
                    /\ (se.end < lower_e \/ se.end > upper_e)
                 THEN sunrise_local + timedelta_minutes(30) ELSE se.end
    IN  [start |-> start, end |-> end]

Avond == <<"a", "v", "o", "n", "d">>

Ochtend == <<"o", "c", "h", "t", "e", "n", "d">>

\* adjust with the VM01 code matched as a prefix (re.match) instead of as a
\* whole (re.fullmatch)
adjustPrefixVM01(proj, dagdeel, start, end, sunrise_local, sunset_local) ==
    LET se0 == [start |-> start, end |-> end]
        se1 == IF startswith(upper(proj), <<"V", "M", "0", "1">>) /\ startswith(dagdeel, Avond)
               THEN VM01_evening(se0, sunset_local) ELSE se0
        se2 == IF startswith(upper(proj), <<"V", "M", "0", "1">>) /\ startswith(dagdeel, Ochtend)
               THEN VM01_morning(se1, sunrise_local) ELSE se1
        se3 == IF fullmatch(<<"V", "M", "0", "2">>, proj) /\ startswith(dagdeel, Avond)
               THEN VM02_evening(se2) ELSE se2
        se4 == IF search(<<"G", "Z">>, proj) THEN GZ_rule(se3, sunset_local) ELSE se3
        se5 == IF search(<<"Z", "R">>, proj) THEN ZR_rule(se4, sunrise_local) ELSE se4
    IN  se5

\* adjust with the GZ and ZR codes matched as a whole (re.fullmatch) instead
\* of anywhere in the code (re.search)
adjustExactGZ(proj, dagdeel, start, end, sunrise_local, sunset_local) ==
    LET se0 == [start |-> start, end |-> end]
        se1 == IF fullmatch(<<"V", "M", "0", "1">>, proj) /\ startswith(dagdeel, Avond)
               THEN VM01_evening(se0, sunset_local) ELSE se0
        se2 == IF fullmatch(<<"V", "M", "0", "1">>, proj) /\ startswith(dagdeel, Ochtend)
               THEN VM01_morning(se1, sunrise_local) ELSE se1
        se3 == IF fullmatch(<<"V", "M", "0", "2">>, proj) /\ startswith(dagdeel, Avond)
               THEN VM02_evening(se2) ELSE se2
        se4 == IF fullmatch(<<"G", "Z">>, proj) THEN GZ_rule(se3, sunset_local) ELSE se3
        se5 == IF fullmatch(<<"Z", "R">>, proj) THEN ZR_rule(se4, sunrise_local) ELSE se4
    IN  se5

\* adjust with the rules chained by elif: the first rule whose code matches
\* is the only one applied
adjustFirstMatchOnly(proj, dagdeel, start, end, sunrise_local, sunset_local) ==
    LET se0 == [start |-> start, end |-> end]
    IN  IF fullmatch(<<"V", "M", "0", "1">>, proj) /\ startswith(dagdeel, Avond)
        THEN VM01_evening(se0, sunset_local)
        ELSE IF fullmatch(<<"V", "M", "0", "1">>, proj) /\ startswith(dagdeel, Ochtend)
        THEN VM01_morning(se0, sunrise_local)
        ELSE IF fullmatch(<<"V", "M", "0", "2">>, proj) /\ startswith(dagdeel, Avond)
        THEN VM02_evening(se0)
        ELSE IF search(<<"G", "Z">>, proj) THEN GZ_rule(se0, sunset_local)
        ELSE IF search(<<"Z", "R">>, proj) THEN ZR_rule(se0, sunrise_local)
        ELSE se0

\* the rules in the order of the loop body, each guarded by its own if
adjust(proj, dagdeel, start, end, sunrise_local, sunset_local) ==
    LET se0 == [start |-> start, end |-> end]
        se1 == IF fullmatch(<<"V", "M", "0", "1">>, proj) /\ startswith(dagdeel, Avond)
               THEN VM01_evening(se0, sunset_local) ELSE se0
        se2 == IF fullmatch(<<"V", "M", "0", "1">>, proj) /\ startswith(dagdeel, Ochtend)
               THEN VM01_morning(se1, sunrise_local) ELSE se1
        se3 == IF fullmatch(<<"V", "M", "0", "2">>, proj) /\ startswith(dagdeel, Avond)
               THEN VM02_evening(se2) ELSE se2
        se4 == IF search(<<"G", "Z">>, proj) THEN GZ_rule(se3, sunset_local) ELSE se3
        se5 == IF search(<<"Z", "R">>, proj) THEN ZR_rule(se4, sunrise_local) ELSE se4
    IN  se5

\* Compute duration in hours if both times present
duration(start, end) ==
    IF start # None /\ end # None THEN <<end - start, SecondsPerHour>> ELSE <<>>

---------------------------------------------------------------------------
(* Manual-review flagger: flag_fieldtime_changes on a table that has the
   columns Project, sunrise and sunset, and Naam_schoon and Naam or not *)

\* Series.fillna("")
fillna(s) == IF s = NoneStr THEN <<>> ELSE s

\* Series.str.strip() == ""
strip_is_empty(s) == \A i \in 1..Len(s) : s[i] \in Whitespace

\* Series.str.contains(r"^VM03", case=False, regex=True)
contains_VM03_prefix(s) == startswith(upper(s), <<"V", "M", "0", "3">>)

\* flag that inspects Naam although the table has the column Naam_schoon
flagRawName(r, o) ==
    LET name_series     == IF "Naam" \in DOMAIN r THEN r.Naam ELSE <<>>
        naam_missing    == strip_is_empty(fillna(name_series))
        vm03_mask       == contains_VM03_prefix(fillna(o.Project))
        sunrise_missing == isna(r.sunrise)
        sunset_missing  == isna(r.sunset)
    IN  IF vm03_mask \/ sunrise_missing \/ sunset_missing \/ naam_missing
        THEN "yes" ELSE "no"

\* the row of the table r with the columns o of the engine
flag(r, o) ==
    LET name_series     == IF "Naam_schoon" \in DOMAIN r THEN r.Naam_schoon
                           ELSE IF "Naam" \in DOMAIN r THEN r.Naam
                           ELSE <<>>
        naam_missing    == strip_is_empty(fillna(name_series))
        vm03_mask       == contains_VM03_prefix(fillna(o.Project))
        sunrise_missing == isna(r.sunrise)
        sunset_missing  == isna(r.sunset)
    IN  IF vm03_mask \/ sunrise_missing \/ sunset_missing \/ naam_missing
        THEN "yes" ELSE "no"

---------------------------------------------------------------------------
(* Input rows *)

\* reported times lie on the days 0..MaxDay
MaxDay == 2

\* the engine is run on its own output at most MaxApply times
MaxApply == 2

\* the day of the sunrise and sunset of the visit
AnchorDay == MaxDay - 1

Days == 0..MaxDay

NoneCell == [tz |-> "none", t |-> 0]

Naive(S) == {[tz |-> "naive", t |-> x] : x \in S}

\* sunrise 06:00 local, stored naive in UTC; sunset 20:00 stored local and
\* 21:00 local stored as aware UTC
SunriseCells == {NoneCell, [tz |-> "naive", t |-> DT(AnchorDay, 5, 0, 0)]}

SunsetCells == {NoneCell, [tz |-> "local", t |-> DT(AnchorDay, 20, 0, 0)],
                [tz |-> "utc", t |-> DT(AnchorDay, 20, 0, 0)]}

\* times every group of names is tried with
GenericStarts ==
    {NoneCell, [tz |-> "utc", t |-> DT(AnchorDay, 18, 50, 0)]}
    \cup Naive({DT(d, 12, 0, 0) : d \in Days} \cup {DT(d, 23, 30, 0) : d \in Days})

GenericEnds ==
    {NoneCell, [tz |-> "local", t |-> DT(AnchorDay, 23, 30, 0)]}
    \cup Naive({DT(d, 12, 0, 0) : d \in Days} \cup {DT(d, 2, 30, 0) : d \in Days})

\* the bounds of a window [lo, hi], one second outside each, and its middle
Around(lo, hi) == {lo - 1, lo, (lo + hi) \div 2, hi, hi + 1}

Sunsets == {DT(AnchorDay, 20, 0, 0), DT(AnchorDay, 21, 0, 0)}

Sunrises == {DT(AnchorDay, 6, 0, 0)}

VM01EveningRows ==
    [names  |-> {<<"V", "M", "0", "1", " ", "a", "v", "o", "n", "d">>},
     starts |-> GenericStarts \cup Naive({DT(AnchorDay, 18, 0, 0), DT(AnchorDay, 19, 50, 0)})
                \cup Naive(UNION {Around(ss - timedelta_hours(1), ss) : ss \in Sunsets}),
     ends   |-> GenericEnds
                \cup Naive(UNION {Around(ss + timedelta_hours(3), ss + timedelta_hours(4)) :
                                    ss \in Sunsets})]

VM01MorningRows ==
    [names  |-> {<<"V", "M", "0", "1", " ", "O", "c", "h", "t", "e", "n", "d">>,
                <<"v", "m", " ", "1", " ", "o", "c", "h", "t", "e", "n", "d", " ", "i", "v">>},
     starts |-> GenericStarts
                \cup Naive(UNION {Around(sr - timedelta_hours(4), sr - timedelta_hours(3)) :
                                    sr \in Sunrises}),
     ends   |-> GenericEnds
                \cup Naive(UNION {Around(sr, sr + timedelta_hours(4)) : sr \in Sunrises})]

VM02EveningRows ==
    [names  |-> {<<"V", "M", "0", "2", " ", "a", "v", "o", "n", "d", " ", "2">>},
     starts |-> GenericStarts
                \cup Naive({DT(AnchorDay, 22, 58, 59), DT(AnchorDay, 22, 59, 0),
                            DT(AnchorDay, 23, 59, 0), DT(AnchorDay, 23, 59, 30),
                            DT(AnchorDay, 0, 0, 0)}),
     ends   |-> GenericEnds
                \cup Naive({DT(d, 1, 59, 59) : d \in Days} \cup {DT(d, 2, 0, 0) : d \in Days}
                           \cup {DT(d, 3, 0, 0) : d \in Days} \cup {DT(d, 3, 0, 30) : d \in Days}
                           \cup {DT(d, 3, 1, 0) : d \in Days} \cup {DT(d, 23, 45, 0) : d \in Days})]

GZRows ==
    [names  |-> {<<"G", "Z">>,
                <<"G", "Z", " ", "Z", "R">>},
     starts |-> GenericStarts
                \cup Naive(UNION {Around(ss - timedelta_minutes(150), ss - timedelta_minutes(90)) :
                                    ss \in Sunsets}),
     ends   |-> GenericEnds \cup Naive({DT(AnchorDay, 21, 10, 0)})
                \cup Naive(UNION {Around(ss + timedelta_minutes(30), ss + timedelta_minutes(90)) :
                                    ss \in Sunsets})]

ZRRows ==
    [names  |-> {<<"Z", "R", " ", "a", "v", "o", "n", "d">>},
     starts |-> GenericStarts
                \cup Naive(UNION {Around(sr - timedelta_minutes(150), sr - timedelta_minutes(90)) :
                                    sr \in Sunrises}),
     ends   |-> GenericEnds
                \cup Naive(UNION {Around(sr + timedelta_minutes(30), sr + timedelta_minutes(90)) :
                                    sr \in Sunrises})]

\* names no rule of the engine is written for
OtherRows ==
    [names  |-> {NoneStr, <<>>, <<" ">>,
                 <<"x", "y", "z">>,
                 <<"H", "M">>,
                 <<"U", "i", "t", "v", "l", "i", "e", "g", "t", "e", "l", "l", "i", "n", "g">>,
                 <<"V", "M", "0", "3", " ", "a", "v", "o", "n", "d">>,
                 <<"V", "M", "0", "3", "X", " ", "o", "c", "h", "t", "e", "n", "d">>,
                 <<"V", "M", "0", "1", "0", " ", "a", "v", "o", "n", "d">>,
                 <<"v", "m", "-", "4", " ", "a", "v", "o", "n", "d">>,
                 <<"V", "M", "0", "1">>,
                 <<"V", "M", "0", "2", " ", "o", "c", "h", "t", "e", "n", "d">>,
                 <<"V", "M", "0", "2">>,
                 <<"a", "v", "o", "n", "d">>,
                 <<"W", "M", "1", " ", "O", "c", "h", "t", "e", "n", "d", " ", "I", "I">>,
                 <<"V", "M", "0", "2", "1", " ", "a", "v", "o", "n", "d">>},
     starts |-> GenericStarts,
     ends   |-> GenericEnds]

RowGroups == {VM01EveningRows, VM01MorningRows, VM02EveningRows, GZRows, ZRRows, OtherRows}

InputRows ==
    UNION {[Naam : g.names, Startdatum : g.starts, Einddatum : g.ends,
            sunrise : SunriseCells, sunset : SunsetCells] : g \in RowGroups}

\* every name of the input table
Names == UNION {g.names : g \in RowGroups}

\* Precompute project/daypart for each row from the name
projects_dagdelen == [name \in Names |-> extract_project_and_daypart(name)]

\* time_suggest with the duration taken from the parsed reported times
time_suggestReportedDuration(r) ==
    LET pd       == IF "Naam" \in DOMAIN r THEN projects_dagdelen[r.Naam]
                    ELSE <<NoneStr, NoneStr>>
        s0       == parse_local(r.Startdatum)
        e0       == parse_local(r.Einddatum)
        sunrise_local == anchor_local(r.sunrise)
        sunset_local  == anchor_local(r.sunset)
        se       == adjust(OrEmpty(pd[1]), OrEmpty(pd[2]), s0, e0,
                           sunrise_local, sunset_local)
    IN  [Project |-> pd[1], Dagdeel |-> pd[2],
         sunrise_local |-> sunrise_local, sunset_local |-> sunset_local,
         Starttijd_Suggest |-> se.start, Eindtijd_Suggest |-> se.end,
         duur_suggest |-> duration(s0, e0)]

\* the columns the function adds for one row
time_suggest(r) ==
    LET pd       == IF "Naam" \in DOMAIN r THEN projects_dagdelen[r.Naam]
                    ELSE <<NoneStr, NoneStr>>
        s0       == parse_local(r.Startdatum)
        e0       == parse_local(r.Einddatum)
        sunrise_local == anchor_local(r.sunrise)
        sunset_local  == anchor_local(r.sunset)
        se       == adjust(OrEmpty(pd[1]), OrEmpty(pd[2]), s0, e0,
                           sunrise_local, sunset_local)
    IN  [Project |-> pd[1], Dagdeel |-> pd[2],
         sunrise_local |-> sunrise_local, sunset_local |-> sunset_local,
         Starttijd_Suggest |-> se.start, Eindtijd_Suggest |-> se.end,
         duur_suggest |-> duration(se.start, se.end)]

---------------------------------------------------------------------------
(* The pipeline on one row *)

NoOut == [Project |-> NoneStr, Dagdeel |-> NoneStr,
          sunrise_local |-> None, sunset_local |-> None,
          Starttijd_Suggest |-> None, Eindtijd_Suggest |-> None,
          duur_suggest |-> <<>>]

Init ==
    /\ row \in InputRows
    /\ out = NoOut
    /\ check_data = ""
    /\ pc = "input"
    /\ napply = 0

\* meta3 = compute_time_suggest(meta2)
\* df.get(column) is None for a column the table does not have, and
\* None.apply raises AttributeError: pc is "raised" and nothing is returned
get_fieldvisit_time_suggest ==
    /\ pc = "input"
    /\ IF {"Startdatum", "Einddatum", "sunrise", "sunset"} \subseteq DOMAIN row
       THEN /\ out' = time_suggest(row)
            /\ pc' = "suggested"
       ELSE /\ out' = out
            /\ pc' = "raised"
    /\ UNCHANGED <<row, check_data, napply>>

\* meta4 = compute_flag_fieldtime_changes(meta3)
flag_fieldtime_changes ==
    /\ pc = "suggested"
    /\ check_data' = flag(row, out)
    /\ pc' = "flagged"
    /\ UNCHANGED <<row, out, napply>>

\* a suggested time as the cell of a new input table
AsCell(dt) == IF dt = None THEN NoneCell ELSE [tz |-> "local", t |-> dt]

\* the engine run again on its own result: the suggested start and end are
\* the reported start and end of the same row, name and anchors unchanged
Reapply ==
    /\ pc = "suggested"
    /\ napply < MaxApply
    /\ row' = [row EXCEPT !.Startdatum = AsCell(out.Starttijd_Suggest),
                          !.Einddatum = AsCell(out.Eindtijd_Suggest)]
    /\ out' = time_suggest(row')
    /\ napply' = napply + 1
    /\ UNCHANGED <<check_data, pc>>

Next ==
    \/ get_fieldvisit_time_suggest
    \/ flag_fieldtime_changes
    \/ Reapply

Spec == Init /\ [][Next]_vars

---------------------------------------------------------------------------
(* What the properties below talk about *)

\* the engine has run on the row
Ran == pc # "input"

\* the parsed reported times and the suggested ones
rep_start == parse_local(row.Startdatum)

rep_end == parse_local(row.Einddatum)

sug_start == out.Starttijd_Suggest

sug_end == out.Eindtijd_Suggest

\* the anchors in local time
ss == out.sunset_local

sr == out.sunrise_local

Within(t, lo, hi) == lo <= t /\ t <= hi

IsCode(code) == out.Project = code

HasCode(code) == out.Project # NoneStr /\ search(code, out.Project)

IsEvening == out.Dagdeel # NoneStr /\ startswith(out.Dagdeel, Avond)

IsMorning == out.Dagdeel # NoneStr /\ startswith(out.Dagdeel, Ochtend)

VM01 == <<"V", "M", "0", "1">>

VM02 == <<"V", "M", "0", "2">>

GZ == <<"G", "Z">>

ZR == <<"Z", "R">>

---------------------------------------------------------------------------
(* C1: for a VM01 evening row with a sunset, a present reported start stays
   when sunset-1h <= start <= sunset and is otherwise the sunset; a present
   reported end stays when sunset+3h <= end <= sunset+4h and is otherwise
   sunset+3h. *)
C1_VM01EveningWindows ==
    (Ran /\ IsCode(VM01) /\ IsEvening /\ ss # None) =>
        /\ rep_start # None =>
              sug_start = IF Within(rep_start, ss - timedelta_hours(1), ss)
                          THEN rep_start ELSE ss
        /\ rep_end # None =>
              sug_end = IF Within(rep_end, ss + timedelta_hours(3), ss + timedelta_hours(4))
                        THEN rep_end ELSE ss + timedelta_hours(3)

\* sunset 20:00 and a reported start of 18:00: the start became 20:00
C1_Witness ==
    /\ Ran /\ IsCode(VM01) /\ IsEvening
    /\ ss = DT(AnchorDay, 20, 0, 0)
    /\ rep_start = DT(AnchorDay, 18, 0, 0)
    /\ sug_start = DT(AnchorDay, 20, 0, 0)
    /\ rep_end = DT(AnchorDay, 23, 30, 0)
    /\ sug_end = rep_end

(* C2 as written: for a VM01 evening row with a sunset, a missing reported
   start becomes the sunset and a missing reported end becomes sunset+3h. *)
C2_NullSnapped ==
    (Ran /\ IsCode(VM01) /\ IsEvening /\ ss # None) =>
        /\ rep_start = None => sug_start = ss
        /\ rep_end = None => sug_end = ss + timedelta_hours(3)

(* C2, amended: for a VM01 evening row with a sunset, a missing reported
   start stays missing and a missing reported end stays missing. *)
C2_NullKept ==
    (Ran /\ IsCode(VM01) /\ IsEvening /\ ss # None) =>
        /\ rep_start = None => sug_start = None
        /\ rep_end = None => sug_end = None

\* a VM01 evening row with a sunset and no reported start, whose end was
\* corrected while the start stayed missing
C2_Witness ==
    /\ Ran /\ IsCode(VM01) /\ IsEvening /\ ss # None
    /\ rep_start = None /\ sug_start = None
    /\ rep_end # None /\ sug_end = ss + timedelta_hours(3) /\ sug_end # rep_end

(* C3: for a VM01 morning row with a sunrise, the suggested end is the
   sunrise when the reported end is outside [sunrise, sunrise+4h] and the
   reported end otherwise; the suggested start is sunrise-3h when the
   reported start is outside [sunrise-4h, sunrise-3h] and the reported start
   otherwise. *)
C3_VM01MorningWindows ==
    (Ran /\ IsCode(VM01) /\ IsMorning /\ sr # None) =>
        /\ sug_end = IF rep_end # None /\ ~Within(rep_end, sr, sr + timedelta_hours(4))
                     THEN sr ELSE rep_end
        /\ sug_start = IF /\ rep_start # None
                          /\ ~Within(rep_start, sr - timedelta_hours(4), sr - timedelta_hours(3))
                       THEN sr - timedelta_hours(3) ELSE rep_start

\* a reported end one second after sunrise+4h became the sunrise, and a
\* reported start on the lower bound of its window was kept
C3_Witness ==
    /\ Ran /\ IsCode(VM01) /\ IsMorning /\ sr # None
    /\ rep_end = sr + timedelta_hours(4) + 1 /\ sug_end = sr
    /\ rep_start = sr - timedelta_hours(4) /\ sug_start = rep_start

\* the clock of a datetime, in seconds since midnight, and in whole minutes
clock(dt) == dt % SecondsPerDay

minute_of_day(dt) == hour(dt) * 60 + minute(dt)

(* C4 as written: for a VM02 evening row, the suggested start has the date
   of the reported start and a clock time in [22:59, 23:59], being the
   reported start when that is already there and 23:59:00 of its date
   otherwise; the suggested end has a clock time in [02:00, 03:00]. *)
C4_VM02ClockWindows ==
    (Ran /\ IsCode(VM02) /\ IsEvening) =>
        /\ rep_start # None =>
              /\ date(sug_start) = date(rep_start)
              /\ Within(clock(sug_start), HMS(22, 59, 0), HMS(23, 59, 0))
              /\ sug_start = IF Within(clock(rep_start), HMS(22, 59, 0), HMS(23, 59, 0))
                             THEN rep_start ELSE update_time(rep_start, 23, 59, 0)
        /\ rep_end # None =>
              Within(clock(sug_end), HMS(2, 0, 0), HMS(3, 0, 0))

(* C4, amended: for a VM02 evening row the windows are tested on the hour
   and minute alone, seconds ignored.  The suggested start has the date of
   the reported start and its hour and minute in [22:59, 23:59], being the
   reported start when its hour and minute are already there and 23:59:00
   of its date otherwise.  The suggested end has its hour and minute in
   [02:00, 03:00]: its clock is 02:00:00 when the hour and minute of the
   reported end are before 02:00, 03:00:00 when they are after 03:00, and
   the reported clock otherwise; its date is that of the reported end or
   the day after. *)
C4_VM02MinuteWindows ==
    (Ran /\ IsCode(VM02) /\ IsEvening) =>
        /\ rep_start # None =>
              /\ date(sug_start) = date(rep_start)
              /\ Within(minute_of_day(sug_start), 22 * 60 + 59, 23 * 60 + 59)
              /\ sug_start = IF Within(minute_of_day(rep_start), 22 * 60 + 59, 23 * 60 + 59)
                             THEN rep_start ELSE update_time(rep_start, 23, 59, 0)
        /\ rep_end # None =>
              /\ Within(minute_of_day(sug_end), 2 * 60, 3 * 60)
              /\ clock(sug_end) = IF minute_of_day(rep_end) < 2 * 60 THEN HMS(2, 0, 0)
                                  ELSE IF minute_of_day(rep_end) > 3 * 60 THEN HMS(3, 0, 0)
                                  ELSE clock(rep_end)
              /\ date(sug_end) \in {date(rep_end), date(rep_end) + 1}

\* a start at noon became 23:59:00 of its day, and an end of 03:00:30 on the
\* next day was kept with its seconds
C4_Witness ==
    /\ Ran /\ IsCode(VM02) /\ IsEvening
    /\ rep_start = DT(AnchorDay, 12, 0, 0) /\ sug_start = DT(AnchorDay, 23, 59, 0)
    /\ rep_end = DT(AnchorDay + 1, 3, 0, 30) /\ sug_end = rep_end

(* C5: in the VM02 evening rule the end moves one day on exactly when both
   times are present and the reported end is not after the corrected start;
   the clamp never changes the date, and a reported end that is after the
   start and has its clock in [02:00, 03:00] is returned as it is. *)
C5_RolloverOnlyWhenNotAfterStart ==
    (Ran /\ IsCode(VM02) /\ IsEvening /\ rep_end # None) =>
        /\ date(sug_end) = date(rep_end)
              + (IF rep_start # None /\ rep_end <= sug_start THEN 1 ELSE 0)
        /\ (/\ rep_start # None /\ rep_end > sug_start
            /\ Within(clock(rep_end), HMS(2, 0, 0), HMS(3, 0, 0)))
           => sug_end = rep_end

\* start 23:30 on a day, end 02:30 on the next: the end is unchanged
C5_Witness ==
    /\ Ran /\ IsCode(VM02) /\ IsEvening
    /\ rep_start = DT(AnchorDay, 23, 30, 0)
    /\ rep_end = DT(AnchorDay + 1, 2, 30, 0)
    /\ sug_start = rep_start
    /\ sug_end = rep_end

(* C6: for a code containing GZ and a sunset, a present reported start stays
   inside [sunset-150min, sunset-90min] and is otherwise sunset-90min, and a
   present reported end stays inside [sunset+30min, sunset+90min] and is
   otherwise sunset+30min; the same for a code containing ZR with the
   sunrise. *)
C6_AnchorWindow(anchor) ==
    /\ rep_start # None =>
          sug_start = IF Within(rep_start, anchor - timedelta_minutes(150),
                                anchor - timedelta_minutes(90))
                      THEN rep_start ELSE anchor - timedelta_minutes(90)
    /\ rep_end # None =>
          sug_end = IF Within(rep_end, anchor + timedelta_minutes(30),
                              anchor + timedelta_minutes(90))
                    THEN rep_end ELSE anchor + timedelta_minutes(30)

C6_GZandZRWindows ==
    /\ (Ran /\ HasCode(GZ) /\ ss # None) => C6_AnchorWindow(ss)
    /\ (Ran /\ HasCode(ZR) /\ sr # None) => C6_AnchorWindow(sr)

\* GZ with sunset 21:00 and a reported end of 21:10: the end became 21:30
C6_Witness ==
    /\ Ran /\ HasCode(GZ)
    /\ ss = DT(AnchorDay, 21, 0, 0)
    /\ rep_end = DT(AnchorDay, 21, 10, 0)
    /\ sug_end = DT(AnchorDay, 21, 30, 0)

(* C7: running the engine on its own result, with the same name and
   anchors, gives the same suggested start, end and duration again. *)
C7_RoundTripIdempotent == [][napply' = napply + 1 => out' = out]_vars

(* C8 as written: in every rule a reported time inside its window stays, a
   time below the window becomes the lower bound and a time above it the
   upper bound. *)
C8_Nearest(rep, sug, lo, hi) ==
    rep # None => sug = IF rep < lo THEN lo ELSE IF rep > hi THEN hi ELSE rep

C8_NearestBoundary ==
    /\ (Ran /\ IsCode(VM01) /\ IsEvening /\ ss # None) =>
          /\ C8_Nearest(rep_start, sug_start, ss - timedelta_hours(1), ss)
          /\ C8_Nearest(rep_end, sug_end, ss + timedelta_hours(3), ss + timedelta_hours(4))
    /\ (Ran /\ IsCode(VM01) /\ IsMorning /\ sr # None) =>
          /\ C8_Nearest(rep_start, sug_start, sr - timedelta_hours(4), sr - timedelta_hours(3))
          /\ C8_Nearest(rep_end, sug_end, sr, sr + timedelta_hours(4))
    /\ (Ran /\ HasCode(GZ) /\ ss # None) =>
          /\ C8_Nearest(rep_start, sug_start, ss - timedelta_minutes(150),
                        ss - timedelta_minutes(90))
          /\ C8_Nearest(rep_end, sug_end, ss + timedelta_minutes(30),
                        ss + timedelta_minutes(90))
    /\ (Ran /\ HasCode(ZR) /\ sr # None) =>
          /\ C8_Nearest(rep_start, sug_start, sr - timedelta_minutes(150),
                        sr - timedelta_minutes(90))
          /\ C8_Nearest(rep_end, sug_end, sr + timedelta_minutes(30),
                        sr + timedelta_minutes(90))

(* C8, amended: the windows of the anchored rules (VM01 evening, VM01
   morning, GZ, ZR) are inclusive at both bounds, and a present reported
   time outside its window, below or above, becomes one fixed bound of it:
   the upper bound of a start window and the lower bound of an end window.
   Only the end of VM02 evening goes to the nearer bound, 02:00 when its
   hour and minute are before 02:00 and 03:00 when they are after 03:00. *)
C8_Fixed(rep, sug, lo, hi, target) ==
    rep # None => sug = IF Within(rep, lo, hi) THEN rep ELSE target

C8_FixedBoundary ==
    /\ (Ran /\ IsCode(VM01) /\ IsEvening /\ ss # None) =>
          /\ C8_Fixed(rep_start, sug_start, ss - timedelta_hours(1), ss, ss)
          /\ C8_Fixed(rep_end, sug_end, ss + timedelta_hours(3), ss + timedelta_hours(4),
                      ss + timedelta_hours(3))
    /\ (Ran /\ IsCode(VM01) /\ IsMorning /\ sr # None) =>
          /\ C8_Fixed(rep_start, sug_start, sr - timedelta_hours(4), sr - timedelta_hours(3),
                      sr - timedelta_hours(3))
          /\ C8_Fixed(rep_end, sug_end, sr, sr + timedelta_hours(4), sr)
    /\ (Ran /\ HasCode(GZ) /\ ss # None) =>
          /\ C8_Fixed(rep_start, sug_start, ss - timedelta_minutes(150),
                      ss - timedelta_minutes(90), ss - timedelta_minutes(90))
          /\ C8_Fixed(rep_end, sug_end, ss + timedelta_minutes(30),
                      ss + timedelta_minutes(90), ss + timedelta_minutes(30))
    /\ (Ran /\ HasCode(ZR) /\ sr # None) =>
          /\ C8_Fixed(rep_start, sug_start, sr - timedelta_minutes(150),
                      sr - timedelta_minutes(90), sr - timedelta_minutes(90))
          /\ C8_Fixed(rep_end, sug_end, sr + timedelta_minutes(30),
                      sr + timedelta_minutes(90), sr + timedelta_minutes(30))
    /\ (Ran /\ IsCode(VM02) /\ IsEvening /\ rep_end # None) =>
          clock(sug_end) = IF minute_of_day(rep_end) < 2 * 60 THEN HMS(2, 0, 0)
                           ELSE IF minute_of_day(rep_end) > 3 * 60 THEN HMS(3, 0, 0)
                           ELSE clock(rep_end)

\* a GZ end above its window became the lower bound of the window, and a GZ
\* start below its window the upper bound
C8_Witness ==
    /\ Ran /\ HasCode(GZ) /\ ss # None
    /\ rep_end = ss + timedelta_minutes(90) + 1 /\ sug_end = ss + timedelta_minutes(30)
    /\ rep_start = ss - timedelta_minutes(150) - 1 /\ sug_start = ss - timedelta_minutes(90)

(* C9: a row whose code and day part match no rule (no code, an
   unrecognised code, HM, UITVLIEGTELLING, VM03, VM0N, VM01 without a day
   part, VM02 with a morning or no day part) has the parsed reported start
   and end as its suggested start and end, whatever the anchors. *)
C9_MatchesNoRule ==
    /\ ~(IsCode(VM01) /\ (IsEvening \/ IsMorning))
    /\ ~(IsCode(VM02) /\ IsEvening)
    /\ ~HasCode(GZ)
    /\ ~HasCode(ZR)

C9_UnmatchedPassThrough ==
    (Ran /\ C9_MatchesNoRule) => (sug_start = rep_start /\ sug_end = rep_end)

\* the code VM010 in the evening with both anchors and both times present:
\* nothing was changed, though the start is outside the VM01 window
C9_Witness ==
    /\ Ran /\ IsCode(<<"V", "M", "0", "1", "0">>) /\ IsEvening
    /\ ss # None /\ sr # None
    /\ rep_start # None /\ rep_start < ss - timedelta_hours(1) /\ rep_end # None
    /\ sug_start = rep_start /\ sug_end = rep_end

(* C10: the sunset-anchored rules (VM01 evening, GZ) change nothing when
   the sunset is missing and the sunrise-anchored ones (VM01 morning, ZR)
   nothing when the sunrise is missing; with its own anchor present a rule
   corrects a time outside its window although the other anchor is
   missing; the VM02 evening rule corrects with both anchors missing. *)
C10_NullAnchors ==
    /\ (Ran /\ ((IsCode(VM01) /\ IsEvening) \/ HasCode(GZ)) /\ ss = None) =>
          (sug_start = rep_start /\ sug_end = rep_end)
    /\ (Ran /\ ((IsCode(VM01) /\ IsMorning) \/ HasCode(ZR)) /\ sr = None) =>
          (sug_start = rep_start /\ sug_end = rep_end)
    /\ (Ran /\ IsCode(VM01) /\ IsEvening /\ ss # None /\ sr = None) =>
          /\ (rep_start # None /\ ~Within(rep_start, ss - timedelta_hours(1), ss))
                => sug_start = ss
          /\ (rep_end # None /\ ~Within(rep_end, ss + timedelta_hours(3),
                                        ss + timedelta_hours(4)))
                => sug_end = ss + timedelta_hours(3)
    /\ (Ran /\ HasCode(GZ) /\ ss # None /\ sr = None) =>
          /\ (rep_start # None /\ ~Within(rep_start, ss - timedelta_minutes(150),
                                          ss - timedelta_minutes(90)))
                => sug_start = ss - timedelta_minutes(90)
          /\ (rep_end # None /\ ~Within(rep_end, ss + timedelta_minutes(30),
                                        ss + timedelta_minutes(90)))
                => sug_end = ss + timedelta_minutes(30)
    /\ (Ran /\ IsCode(VM01) /\ IsMorning /\ sr # None /\ ss = None) =>
          /\ (rep_start # None /\ ~Within(rep_start, sr - timedelta_hours(4),
                                          sr - timedelta_hours(3)))
                => sug_start = sr - timedelta_hours(3)
          /\ (rep_end # None /\ ~Within(rep_end, sr, sr + timedelta_hours(4)))
                => sug_end = sr
    /\ (Ran /\ HasCode(ZR) /\ sr # None /\ ss = None) =>
          /\ (rep_start # None /\ ~Within(rep_start, sr - timedelta_minutes(150),
                                          sr - timedelta_minutes(90)))
                => sug_start = sr - timedelta_minutes(90)
          /\ (rep_end # None /\ ~Within(rep_end, sr + timedelta_minutes(30),
                                        sr + timedelta_minutes(90)))
                => sug_end = sr + timedelta_minutes(30)
    /\ (Ran /\ IsCode(VM02) /\ IsEvening /\ ss = None /\ sr = None) =>
          /\ (rep_start # None /\ minute_of_day(rep_start) < 22 * 60 + 59)
                => sug_start = update_time(rep_start, 23, 59, 0)
          /\ (rep_end # None /\ minute_of_day(rep_end) > 3 * 60)
                => clock(sug_end) = HMS(3, 0, 0)

\* a VM01 evening row without a sunset but with a sunrise, whose reported
\* times (an evening start, an end the next noon) were left as they were
C10_Witness ==
    /\ Ran /\ IsCode(VM01) /\ IsEvening
    /\ ss = None /\ sr # None
    /\ rep_start = DT(AnchorDay, 19, 50, 0) /\ sug_start = rep_start
    /\ rep_end = DT(AnchorDay + 1, 12, 0, 0) /\ sug_end = rep_end

---------------------------------------------------------------------------
(* The row loop of get_fieldvisit_time_suggest on one row of the table it
   iterates over: the columns Project, Dagdeel, Starttijd_Suggest,
   Eindtijd_Suggest, sunrise_local and sunset_local are its inputs.  The
   variable row holds that row and out the row with the loop's results. *)

\* values of the Project column
RuleCodes ==
    {NoneStr,
     <<"V", "M", "0", "1">>, <<"v", "m", "0", "1">>, <<"V", "M", "0", "2">>,
     <<"V", "M", "0", "1", "0">>, <<"V", "M", "0", "2", "1">>, <<"V", "M", "0">>,
     <<"G", "Z">>, <<"g", "z">>, <<"X", "G", "Z">>, <<"G", "Z", "1">>,
     <<"Z", "R">>, <<"A", "Z", "R", "B">>, <<"z", "r", "2">>,
     <<"G", "Z", "-", "Z", "R">>, <<"H", "M">>}

\* values of the Dagdeel column
RuleDagdelen ==
    {NoneStr, Avond, Ochtend, <<"a", "v", "o", "n", "d", " ", "2">>}

\* sunrise 06:00 and sunset 20:00 of the anchor day, or missing
RuleSunrises == {None, DT(AnchorDay, 6, 0, 0)}

RuleSunsets == {None, DT(AnchorDay, 20, 0, 0)}

\* a missing start, a start outside every window, and one inside the start
\* window of VM01 evening, GZ, ZR and VM01 morning
RuleStarts ==
    {None, DT(AnchorDay, 12, 0, 0), DT(AnchorDay, 19, 30, 0), DT(AnchorDay, 18, 0, 0),
     DT(AnchorDay, 4, 0, 0), DT(AnchorDay, 2, 30, 0)}

\* a missing end, an end outside every window, and one inside the end window
\* of VM01 evening, GZ, and ZR and VM01 morning
RuleEnds ==
    {None, DT(AnchorDay, 12, 0, 0), DT(AnchorDay, 23, 30, 0), DT(AnchorDay, 21, 0, 0),
     DT(AnchorDay, 7, 0, 0)}

RuleRows ==
    [Project : RuleCodes, Dagdeel : RuleDagdelen,
     Starttijd_Suggest : RuleStarts, Eindtijd_Suggest : RuleEnds,
     sunrise_local : RuleSunrises, sunset_local : RuleSunsets]

InitRules ==
    /\ row \in RuleRows
    /\ out = NoOut
    /\ check_data = ""
    /\ pc = "row"
    /\ napply = 0

\* one iteration of  for _, row in df.iterrows()
adjust_row ==
    /\ pc = "row"
    /\ LET se == adjust(OrEmpty(row.Project), OrEmpty(row.Dagdeel),
                        row.Starttijd_Suggest, row.Eindtijd_Suggest,
                        row.sunrise_local, row.sunset_local)
       IN  out' = [Project |-> row.Project, Dagdeel |-> row.Dagdeel,
                   sunrise_local |-> row.sunrise_local,
                   sunset_local |-> row.sunset_local,
                   Starttijd_Suggest |-> se.start, Eindtijd_Suggest |-> se.end,
                   duur_suggest |-> duration(se.start, se.end)]
    /\ pc' = "adjusted"
    /\ UNCHANGED <<row, check_data, napply>>

NextRules == adjust_row

SpecRules == InitRules /\ [][NextRules]_vars

\* sub occurs in s at some position
Contains(s, sub) ==
    \E i \in 1..(Len(s) - Len(sub) + 1) : SubSeq(s, i, i + Len(sub) - 1) = sub

\* the code of the row with its letters in upper case, <<>> when missing
CodeUpper == upper(OrEmpty(row.Project))

(* C11: after the loop body ran on a row, (a) a code that is not VM01 or
   VM02 as a whole, letter case ignored, and contains neither GZ nor ZR
   leaves both times as they were, VM010 and VM021 included; (b) the code
   VM01 or VM02 as a whole, in any letter case, with an evening day part
   puts a present start into the window of its rule; (c) a code containing
   GZ anywhere, in any letter case, and not ZR puts a present start and end
   into the GZ windows when the sunset is present, and a code containing ZR
   anywhere puts them into the ZR windows when the sunrise is present. *)
C11_ExactAndSubstring ==
    pc = "adjusted" =>
        /\ (/\ CodeUpper \notin {VM01, VM02}
            /\ ~Contains(CodeUpper, GZ) /\ ~Contains(CodeUpper, ZR))
              => /\ sug_start = row.Starttijd_Suggest
                 /\ sug_end = row.Eindtijd_Suggest
        /\ (CodeUpper = VM01 /\ IsEvening /\ ss # None /\ row.Starttijd_Suggest # None)
              => Within(sug_start, ss - timedelta_hours(1), ss)
        /\ (CodeUpper = VM02 /\ IsEvening /\ row.Starttijd_Suggest # None)
              => Within(hour(sug_start) * 60 + minute(sug_start), 22 * 60 + 59, 23 * 60 + 59)
        /\ (Contains(CodeUpper, GZ) /\ ~Contains(CodeUpper, ZR) /\ ss # None)
              => /\ row.Starttijd_Suggest # None =>
                       Within(sug_start, ss - timedelta_minutes(150), ss - timedelta_minutes(90))
                 /\ row.Eindtijd_Suggest # None =>
                       Within(sug_end, ss + timedelta_minutes(30), ss + timedelta_minutes(90))
        /\ (Contains(CodeUpper, ZR) /\ sr # None)
              => /\ row.Starttijd_Suggest # None =>
                       Within(sug_start, sr - timedelta_minutes(150), sr - timedelta_minutes(90))
                 /\ row.Eindtijd_Suggest # None =>
                       Within(sug_end, sr + timedelta_minutes(30), sr + timedelta_minutes(90))

\* the code XGZ, which only contains GZ: a noon end became sunset+30min
C11_Witness ==
    /\ pc = "adjusted"
    /\ row.Project = <<"X", "G", "Z">>
    /\ ss # None
    /\ row.Eindtijd_Suggest = DT(AnchorDay, 12, 0, 0)
    /\ sug_end = ss + timedelta_minutes(30)

---------------------------------------------------------------------------
(* C12: once the engine has run, duur_suggest is the suggested end minus the
   suggested start, in hours (seconds over 3600), when both suggested times
   are present, and NaN when one of them is missing. *)
C12_DurationFromSuggested ==
    Ran => out.duur_suggest =
              IF sug_start # None /\ sug_end # None
              THEN <<sug_end - sug_start, SecondsPerHour>>
              ELSE <<>>

\* a VM01 evening row reported from 18:00 to 23:30 with sunset 20:00: the
\* start became 20:00 and the duration is 3.5 hours, not the reported 5.5
C12_Witness ==
    /\ Ran /\ IsCode(VM01) /\ IsEvening
    /\ rep_start = DT(AnchorDay, 18, 0, 0) /\ rep_end = DT(AnchorDay, 23, 30, 0)
    /\ sug_start = DT(AnchorDay, 20, 0, 0) /\ sug_end = rep_end
    /\ out.duur_suggest = <<HMS(3, 30, 0), SecondsPerHour>>

---------------------------------------------------------------------------
(* The extractor on one name: _extract_project_and_daypart as the loop over
   the Naam column calls it.  The variable row holds the name and out the
   Project and Dagdeel it gives. *)

\* the letters V or W and M in both cases, a separator or none, one digit
LegacyPrefixes == {<<"V", "M">>, <<"v", "m">>, <<"W", "M">>, <<"w", "m">>, <<"W", "m">>}

Separators == {<<>>, <<"-">>, <<" ">>}

LegacyNames ==
    {pre \o sep \o <<d>> : pre \in LegacyPrefixes, sep \in Separators, d \in Digits}
    \cup {<<"W", "M", "1", " ", "O", "c", "h", "t", "e", "n", "d", " ", "I", "I">>,
          <<"V", "M", "1", " ", "O", "c", "h", "t", "e", "n", "d", " ", "I", "I">>,
          <<"W", "M", "1", "2">>, <<"W", "M", "0", "1">>}

\* words with the code they hold, and phrases with the day part they hold
CodeWords ==
    {<<<<>>, NoneStr>>,
     <<<<"G", "Z">>, <<"G", "Z">>>>,
     <<<<"z", "r">>, <<"Z", "R">>>>,
     <<<<"V", "M", "0", "1">>, <<"V", "M", "0", "1">>>>,
     <<<<"v", "m", "-", "2">>, <<"V", "M", "0", "2">>>>,
     <<<<"H", "M", "1", "2">>, <<"H", "M", "1", "2">>>>,
     <<<<"U", "i", "t", "v", "l", "i", "e", "g", "t", "e", "l", "l", "i", "n", "g">>, <<"U", "I", "T", "V", "L", "I", "E", "G", "T", "E", "L", "L", "I", "N", "G">>>>,
     <<<<"x", "y", "z">>, NoneStr>>}

DayPhrases ==
    {<<<<>>, NoneStr>>,
     <<<<"a", "v", "o", "n", "d">>, <<"a", "v", "o", "n", "d">>>>,
     <<<<"O", "c", "h", "t", "e", "n", "d", " ", "I", "I">>, <<"o", "c", "h", "t", "e", "n", "d", " ", "2">>>>,
     <<<<"a", "v", "o", "n", "d", " ", "1", "2">>, <<"a", "v", "o", "n", "d", " ", "1", "2">>>>,
     <<<<"A", "V", "O", "N", "D", " ", "i", "i", "i">>, <<"a", "v", "o", "n", "d", " ", "3">>>>,
     <<<<"a", "v", "o", "n", "d", " ", "x">>, <<"a", "v", "o", "n", "d">>>>}

\* a word alone, a phrase alone, and both with a space between, in both orders
ComposedNames ==
    {NoneStr}
    \cup {c[1] \o <<" ">> \o d[1] : c \in CodeWords, d \in DayPhrases}
    \cup {d[1] \o <<" ">> \o c[1] : c \in CodeWords, d \in DayPhrases}
    \cup {c[1] : c \in CodeWords} \cup {d[1] : d \in DayPhrases}

\* tokens after the kind of day part, with the ordinal each stands for and
\* <<>> for one that is no ordinal
OrdinalTokens ==
    {<<<<"I">>, <<"1">>>>,
     <<<<"i", "i">>, <<"2">>>>,
     <<<<"I", "I", "I">>, <<"3">>>>,
     <<<<"2">>, <<"2">>>>,
     <<<<"1", "2">>, <<"1", "2">>>>,
     <<<<"I", "V">>, <<>>>>,
     <<<<"i", "i", "i", "i">>, <<>>>>,
     <<<<"i", "n">>, <<>>>>,
     <<<<"x">>, <<>>>>,
     <<<<"V">>, <<>>>>}

DayKinds == {<<"a", "v", "o", "n", "d">>, <<"O", "c", "h", "t", "e", "n", "d">>}

\* a kind alone and a kind followed by a token, with and without a code
OrdinalNames ==
    DayKinds
    \cup {k \o <<" ">> \o t[1] : k \in DayKinds, t \in OrdinalTokens}
    \cup {<<"V", "M", "0", "1", " ">> \o k \o <<" ">> \o t[1] : k \in DayKinds, t \in OrdinalTokens}

ExtractNames == LegacyNames \cup ComposedNames \cup OrdinalNames

InitExtract ==
    /\ row \in [Naam : ExtractNames]
    /\ out = NoOut
    /\ check_data = ""
    /\ pc = "name"
    /\ napply = 0

\* project, dagdeel = _extract_project_and_daypart(name)
extract_name ==
    /\ pc = "name"
    /\ LET pd == extract_project_and_daypart(row.Naam)
       IN  out' = [NoOut EXCEPT !.Project = pd[1], !.Dagdeel = pd[2]]
    /\ pc' = "extracted"
    /\ UNCHANGED <<row, check_data, napply>>

NextExtract == extract_name

SpecExtract == InitExtract /\ [][NextExtract]_vars

Extracted == pc = "extracted"

(* C13: for every digit d, the names WM<d> and VM<d>, in any letter case and
   with an optional "-" or space before the digit, give the code VM0<d>, and
   the name "WM1 Ochtend II" gives the code VM01 and the day part
   "ochtend 2". *)
C13_LegacyPrefixPadded ==
    Extracted =>
        /\ \A pre \in LegacyPrefixes, sep \in Separators, d \in Digits :
              row.Naam = pre \o sep \o <<d>> => out.Project = <<"V", "M", "0", d>>
        /\ row.Naam = <<"W", "M", "1", " ", "O", "c", "h", "t", "e", "n", "d", " ", "I", "I">>
              => /\ out.Project = <<"V", "M", "0", "1">>
                 /\ out.Dagdeel = <<"o", "c", "h", "t", "e", "n", "d", " ", "2">>

(* C14: the names None and "" give (None, None); "GZ" gives ("GZ", None);
   and a name made of a word and a phrase with a space between, in either
   order, gives the code of the word and the day part of the phrase,
   whatever the other one is, None for the one that holds nothing. *)
C14_NullAndIndependent ==
    Extracted =>
        /\ row.Naam \in {NoneStr, <<>>} =>
              (out.Project = NoneStr /\ out.Dagdeel = NoneStr)
        /\ row.Naam = <<"G", "Z">> =>
              (out.Project = <<"G", "Z">> /\ out.Dagdeel = NoneStr)
        /\ \A c \in CodeWords, d \in DayPhrases :
              row.Naam \in {c[1] \o <<" ">> \o d[1], d[1] \o <<" ">> \o c[1]} =>
                  (out.Project = c[2] /\ out.Dagdeel = d[2])
        /\ \A c \in CodeWords : row.Naam = c[1] => out.Project = c[2]
        /\ \A d \in DayPhrases : row.Naam = d[1] => out.Dagdeel = d[2]

\* a name with a day part and no code: the code is None on its own
C14_Witness ==
    /\ Extracted
    /\ row.Naam = <<"x", "y", "z", " ", "O", "c", "h", "t", "e", "n", "d", " ", "I", "I">>
    /\ out.Project = NoneStr
    /\ out.Dagdeel = <<"o", "c", "h", "t", "e", "n", "d", " ", "2">>

(* C15: the day part of a name "<kind>" or "<kind> <token>", with or without
   a code in front, is the kind in lower case followed by a space and the
   ordinal when the token is I, II, III (1, 2, 3) or a plain integer
   (itself), and the kind alone when there is no token or the token is
   anything else. *)
C15_OrdinalOrKindAlone ==
    Extracted =>
        \A k \in DayKinds :
            /\ row.Naam = k => out.Dagdeel = lower(k)
            /\ \A t \in OrdinalTokens :
                  row.Naam \in {k \o <<" ">> \o t[1],
                                <<"V", "M", "0", "1", " ">> \o k \o <<" ">> \o t[1]} =>
                      out.Dagdeel = IF t[2] = <<>> THEN lower(k)
                                    ELSE lower(k) \o <<" ">> \o t[2]

---------------------------------------------------------------------------
(* The engine and the flagger on tables with and without the columns
   Naam_schoon and Naam, and with anchors that are missing, timestamps, or
   present but no timestamp *)

TextCell == [tz |-> "text", t |-> 0]

FlagNames ==
    {NoneStr, <<>>, <<" ">>,
     <<"V", "M", "0", "1", " ", "a", "v", "o", "n", "d">>,
     <<"V", "M", "0", "1", " ", "O", "c", "h", "t", "e", "n", "d">>,
     <<"V", "M", "0", "3", " ", "a", "v", "o", "n", "d">>,
     <<"V", "M", "0", "3", "X", " ", "o", "c", "h", "t", "e", "n", "d">>,
     <<"G", "Z">>,
     <<"Z", "R", " ", "a", "v", "o", "n", "d">>,
     <<"H", "M">>}

\* values of the column Naam_schoon: missing, blank, a cleaned name
FlagCleanNames ==
    {NoneStr, <<" ", " ">>, <<"V", "M", "0", "1", " ", "a", "v", "o", "n", "d">>}

FlagSunrises == {NoneCell, TextCell, [tz |-> "naive", t |-> DT(AnchorDay, 5, 0, 0)]}

FlagSunsets == {NoneCell, TextCell, [tz |-> "local", t |-> DT(AnchorDay, 20, 0, 0)]}

FlagStarts == Naive({DT(AnchorDay, 12, 0, 0), DT(AnchorDay, 19, 30, 0)})

FlagEnds == {NoneCell} \cup Naive({DT(AnchorDay, 12, 0, 0)})

FlagRows ==
    [Naam_schoon : FlagCleanNames, Naam : FlagNames,
     Startdatum : FlagStarts, Einddatum : FlagEnds,
     sunrise : FlagSunrises, sunset : FlagSunsets]
    \cup [Naam : FlagNames, Startdatum : FlagStarts, Einddatum : FlagEnds,
          sunrise : FlagSunrises, sunset : FlagSunsets]
    \cup [Startdatum : FlagStarts, Einddatum : FlagEnds,
          sunrise : FlagSunrises, sunset : FlagSunsets]

\* values of a Project column that another source than the engine wrote
OtherSourceCodes ==
    {<<"V", "M", "0", "3", "X">>, <<"v", "m", "0", "3", "x">>, <<"V", "M", "3">>,
     <<"X", "V", "M", "0", "3">>, <<"H", "M">>}

\* the table is the input of the engine, or it comes from another source
\* with a Project column of its own and goes to the flagger as it is
InitFlag ==
    /\ \/ /\ row \in FlagRows
          /\ out = NoOut
          /\ pc = "input"
       \/ /\ row \in {r \in FlagRows : r.Einddatum = NoneCell}
          /\ out \in {[NoOut EXCEPT !.Project = c] : c \in OtherSourceCodes}
          /\ pc = "suggested"
    /\ check_data = ""
    /\ napply = 0

SpecFlag == InitFlag /\ [][Next]_vars

Flagged == pc = "flagged"

\* the name the flagger inspects: the cleaned name when the table has that
\* column, else the raw name, else the empty string
InspectedName ==
    IF "Naam_schoon" \in DOMAIN row THEN row.Naam_schoon
    ELSE IF "Naam" \in DOMAIN row THEN row.Naam
    ELSE <<>>

Blank(s) == s = NoneStr \/ \A i \in 1..Len(s) : s[i] = " "

VM03 == <<"V", "M", "0", "3">>

(* C16: the flag of a row is "yes" exactly when its code starts with VM03,
   its sunrise is missing, its sunset is missing, or the inspected name (the
   cleaned name when the table has that column, else the raw name, else the
   empty string) is missing or blank, and "no" otherwise. *)
C16_FlagIsTheDisjunction ==
    Flagged =>
        check_data = IF \/ (out.Project # NoneStr /\ startswith(upper(out.Project), VM03))
                        \/ row.sunrise = NoneCell
                        \/ row.sunset = NoneCell
                        \/ Blank(InspectedName)
                     THEN "yes" ELSE "no"

\* the code vm03x with both sun times and a cleaned name: "yes"
C16_Witness ==
    /\ Flagged
    /\ out.Project = <<"v", "m", "0", "3", "x">>
    /\ row.sunrise \notin {NoneCell, TextCell} /\ row.sunset \notin {NoneCell, TextCell}
    /\ "Naam_schoon" \in DOMAIN row /\ ~Blank(row.Naam_schoon)
    /\ check_data = "yes"

\* the engine left a rule without effect because the anchor of the rule,
\* converted to local time, was None
SkippedForSunset == ((IsCode(VM01) /\ IsEvening) \/ HasCode(GZ)) /\ ss = None

SkippedForSunrise == ((IsCode(VM01) /\ IsMorning) \/ HasCode(ZR)) /\ sr = None

(* C17: a row on which the engine skipped a sunset rule (VM01 evening, GZ)
   because the sunset in local time was None, or a sunrise rule (VM01
   morning, ZR) because the sunrise in local time was None, is flagged
   "yes" when the flagger runs on the result of the engine. *)
C17_SkippedIsFlagged ==
    (Flagged /\ (SkippedForSunset \/ SkippedForSunrise)) => check_data = "yes"

---------------------------------------------------------------------------
(* The engine and the flagger on a table of several rows.  The variable row
   holds the table, a sequence of rows; out holds the lists the engine
   fills, one element per row done: projects and dagdelen in the loop over
   the names, results in the loop over the rows; check_data holds the column
   of flags. *)

\* a table has 1..MaxRows rows
MaxRows == 3

BatchRows ==
    [Naam : {<<"V", "M", "0", "1", " ", "O", "c", "h", "t", "e", "n", "d">>,
             <<"G", "Z">>,
             <<"V", "M", "0", "3", " ", "a", "v", "o", "n", "d">>},
     Startdatum : Naive({DT(AnchorDay, 12, 0, 0)}),
     Einddatum : Naive({DT(AnchorDay, 12, 0, 0)}),
     sunrise : SunriseCells,
     sunset : {[tz |-> "local", t |-> DT(AnchorDay, 20, 0, 0)]}]

Tables == UNION {[1..n -> BatchRows] : n \in 1..MaxRows}

InitBatch ==
    /\ row \in Tables
    /\ out = [projects |-> <<>>, dagdelen |-> <<>>, results |-> <<>>]
    /\ check_data = <<>>
    /\ pc = "names"
    /\ napply = 0

\* for name in names: projects.append(project); dagdelen.append(dagdeel)
extract_loop ==
    /\ pc = "names"
    /\ LET i  == Len(out.projects) + 1
           pd == projects_dagdelen[row[i].Naam]
       IN  /\ out' = [out EXCEPT !.projects = Append(@, pd[1]),
                                 !.dagdelen = Append(@, pd[2])]
           /\ pc' = IF i = Len(row) THEN "rows" ELSE "names"
    /\ UNCHANGED <<row, check_data, napply>>

\* adjust_loop with the code of the first row taken for every row
adjust_loopFirstProject ==
    /\ pc = "rows"
    /\ LET i  == Len(out.results) + 1
           se == adjust(OrEmpty(out.projects[1]), OrEmpty(out.dagdelen[i]),
                        parse_local(row[i].Startdatum), parse_local(row[i].Einddatum),
                        anchor_local(row[i].sunrise), anchor_local(row[i].sunset))
       IN  /\ out' = [out EXCEPT !.results =
                         Append(@, [start |-> se.start, end |-> se.end,
                                    dur |-> duration(se.start, se.end)])]
           /\ pc' = IF i = Len(row) THEN "suggested" ELSE "rows"
    /\ UNCHANGED <<row, check_data, napply>>

\* for _, row in df.iterrows(): ... results_start.append(start) ...
adjust_loop ==
    /\ pc = "rows"
    /\ LET i  == Len(out.results) + 1
           se == adjust(OrEmpty(out.projects[i]), OrEmpty(out.dagdelen[i]),
                        parse_local(row[i].Startdatum), parse_local(row[i].Einddatum),
                        anchor_local(row[i].sunrise), anchor_local(row[i].sunset))
       IN  /\ out' = [out EXCEPT !.results =
                         Append(@, [start |-> se.start, end |-> se.end,
                                    dur |-> duration(se.start, se.end)])]
           /\ pc' = IF i = Len(row) THEN "suggested" ELSE "rows"
    /\ UNCHANGED <<row, check_data, napply>>

\* flag_fieldtime_changes on the whole table
flag_table ==
    /\ pc = "suggested"
    /\ check_data' = [i \in 1..Len(row) |-> flag(row[i], [Project |-> out.projects[i]])]
    /\ pc' = "flagged"
    /\ UNCHANGED <<row, out, napply>>

NextBatch ==
    \/ extract_loop
    \/ adjust_loop
    \/ flag_table

SpecBatch == InitBatch /\ [][NextBatch]_vars

(* C18: in a table of any rows in any order, the code, day part, suggested
   start, suggested end, duration and flag of the row at a position are
   those the engine and the flagger give that row alone, whatever the other
   rows of the table are and wherever the row stands. *)
C18_RowsIndependent ==
    /\ \A i \in 1..Len(out.projects) :
          /\ out.projects[i] = time_suggest(row[i]).Project
          /\ out.dagdelen[i] = time_suggest(row[i]).Dagdeel
    /\ \A i \in 1..Len(out.results) :
          /\ out.results[i].start = time_suggest(row[i]).Starttijd_Suggest
          /\ out.results[i].end = time_suggest(row[i]).Eindtijd_Suggest
          /\ out.results[i].dur = time_suggest(row[i]).duur_suggest
    /\ pc = "flagged" =>
          /\ Len(out.projects) = Len(row) /\ Len(out.results) = Len(row)
          /\ \A i \in 1..Len(row) : check_data[i] = flag(row[i], time_suggest(row[i]))

\* a table of a GZ row with a sunrise followed by a VM01 morning row without
\* one: the first is corrected and not flagged, the second kept and flagged
C18_Witness ==
    /\ pc = "flagged"
    /\ Len(row) = 2
    /\ row[1].Naam = <<"G", "Z">> /\ row[1].sunrise # NoneCell
    /\ row[2].Naam # <<"G", "Z">> /\ row[2].sunrise = NoneCell
    /\ out.projects = <<GZ, VM01>>
    /\ out.results[1].start = DT(AnchorDay, 18, 30, 0)
    /\ out.results[2].start = DT(AnchorDay, 12, 0, 0)
    /\ check_data = <<"no", "yes">>

---------------------------------------------------------------------------
(* Fallback solar estimator: _fallback_sunrise_sunset of fieldvisit_utils
   with the elevation 0 and the zone Europe/Amsterdam, in fixed-point
   arithmetic.  An angle is a whole number of hundredths of a degree, a
   sine, cosine or other ratio a whole number of ten-thousandths, an instant
   a whole number of seconds since 2000-01-01 00:00 UTC; the results are
   within two minutes of the floating-point ones.  A date is the number n of
   days from 2000-01-01 to it, which is what the code computes as n for the
   noon of the date.  A datetime the estimator returns is the pair
   <<ts, utcoffset>> of its instant and the offset of its zone then, and
   <<>> is the None it returns for no sunrise or no sunset. *)

\* sin of an angle of x ten-thousandths of a radian, 0 <= x <= pi/2
sin_rad(x) ==
    LET y  == (x * x) \div 10000
        t4 == 10000 - y \div 72
        t3 == 10000 - ((y * t4) \div 10000) \div 42
        t2 == 10000 - ((y * t3) \div 10000) \div 20
        t1 == 10000 - ((y * t2) \div 10000) \div 6
    IN  (x * t1) \div 10000

\* sin(radians(a)) and cos(radians(a)) of an angle of a hundredths of a degree
sin_deg(a) ==
    LET b == a % 36000
        h == IF b > 18000 THEN b - 18000 ELSE b
        q == IF h > 9000 THEN 18000 - h ELSE h
        v == sin_rad((q * 17453) \div 10000)
    IN  IF b > 18000 THEN 0 - v ELSE v

cos_deg(a) == sin_deg(a + 9000)

RECURSIVE SqrtSearch(_, _, _)
SqrtSearch(v, lo, hi) ==
    IF lo >= hi THEN lo
    ELSE LET mid == (lo + hi + 1) \div 2
         IN  IF mid * mid <= v THEN SqrtSearch(v, mid, hi) ELSE SqrtSearch(v, lo, mid - 1)

RECURSIVE AcosSearch(_, _, _)
AcosSearch(c, lo, hi) ==
    IF lo >= hi THEN lo
    ELSE LET mid == (lo + hi + 1) \div 2
         IN  IF cos_deg(mid) >= c THEN AcosSearch(c, mid, hi) ELSE AcosSearch(c, lo, mid - 1)

\* degrees(acos(c)) in hundredths of a degree, for -1 < c < 1
acos_deg(c) == AcosSearch(c, 0, 18000)

\* the fraction of J_star = n + 0.0009 - l_w / 360.0 with l_w = -longitude,
\* in ten-thousandths of a day
J_star_frac(longitude) == 9 + (longitude * 10) \div 36

\* M_deg = fmod(357.5291 + 0.98560028 * J_star, 360.0)
M_deg(n, longitude) ==
    (35753 + (9856 * n) \div 100 + (28 * n) \div 1000000
           + (9856 * J_star_frac(longitude)) \div 1000000) % 36000

\* Equation of the center (degrees)
C_deg(M) ==
    (19148 * sin_deg(M)) \div 1000000 + (200 * sin_deg(2 * M)) \div 1000000
    + (3 * sin_deg(3 * M)) \div 1000000

\* Ecliptic longitude (degrees)
lambda_deg(M) == (M + C_deg(M) + 18000 + 10294) % 36000

\* Solar transit: the instant of J_transit, the noon of the date plus
\* 0.0009 + longitude / 360 + 0.0053 sin M - 0.0069 sin 2 lambda days
J_transit(n, longitude) ==
    LET M == M_deg(n, longitude)
    IN  n * SecondsPerDay + 12 * SecondsPerHour + 78 + (240 * longitude) \div 100
        + (458 * sin_deg(M)) \div 10000
        - (596 * sin_deg(2 * lambda_deg(M))) \div 10000

\* Sun declination
sin_delta(M) == (sin_deg(lambda_deg(M)) * 3978) \div 10000

cos_delta(M) == SqrtSearch(100000000 - sin_delta(M) * sin_delta(M), 0, 10000)

\* some_cos with sin(dip) for sin(radians(dip)): the sine of -0.833 radians
some_cosDipInRadians(n, latitude, longitude) ==
    LET M    == M_deg(n, longitude)
        num  == 0 - 7400 - (sin_deg(latitude) * sin_delta(M)) \div 10000
        den0 == (cos_deg(latitude) * cos_delta(M)) \div 10000
        den  == IF den0 >= 1 THEN den0 ELSE 1
    IN  (num * 10000) \div den

\* Compute cosine of hour angle.  sin(radians(dip)) is -0.0145 for the dip
\* -0.833; cos(radians(latitude)) is a tiny positive number at the poles in
\* floating point, never 0, so the quotient is huge there: the smallest
\* positive denominator stands for it.
some_cos(n, latitude, longitude) ==
    LET M    == M_deg(n, longitude)
        num  == 0 - 145 - (sin_deg(latitude) * sin_delta(M)) \div 10000
        den0 == (cos_deg(latitude) * cos_delta(M)) \div 10000
        den  == IF den0 >= 1 THEN den0 ELSE 1
    IN  (num * 10000) \div den

\* w0_deg / 360.0 days, in seconds
hour_angle_days(c) == (acos_deg(c) * 24) \div 10

\* Europe/Amsterdam in 2024: summer time from 31 March 01:00 UTC to
\* 27 October 01:00 UTC
utcoffset(ts) ==
    IF ts >= 8856 * SecondsPerDay + SecondsPerHour /\ ts < 9066 * SecondsPerDay + SecondsPerHour
    THEN 2 * SecondsPerHour ELSE SecondsPerHour

\* Convert Julian dates to UTC datetimes and then to the requested timezone
julian_to_dt(j) == IF j = None THEN <<>> ELSE <<j, utcoffset(j)>>

\* fallback_sunrise_sunset with the results of the two polar branches
\* exchanged
fallback_sunrise_sunsetPolarSwapped(n, latitude, longitude) ==
    LET c  == some_cos(n, latitude, longitude)
        tr == J_transit(n, longitude)
        sunrise_j == IF c <= 0 - 10000 THEN None
                     ELSE IF c >= 10000 THEN tr - 12 * SecondsPerHour
                     ELSE tr - hour_angle_days(c)
        sunset_j  == IF c <= 0 - 10000 THEN None
                     ELSE IF c >= 10000 THEN None
                     ELSE tr + hour_angle_days(c)
    IN  [sunrise |-> julian_to_dt(sunrise_j), sunset |-> julian_to_dt(sunset_j)]

\* fallback_sunrise_sunset with the hour angle added for the sunrise and
\* subtracted for the sunset
fallback_sunrise_sunsetReversed(n, latitude, longitude) ==
    LET c  == some_cos(n, latitude, longitude)
        tr == J_transit(n, longitude)
        sunrise_j == IF c <= 0 - 10000 THEN tr - 12 * SecondsPerHour
                     ELSE IF c >= 10000 THEN None
                     ELSE tr + hour_angle_days(c)
        sunset_j  == IF c <= 0 - 10000 THEN None
                     ELSE IF c >= 10000 THEN None
                     ELSE tr - hour_angle_days(c)
    IN  [sunrise |-> julian_to_dt(sunrise_j), sunset |-> julian_to_dt(sunset_j)]

\* _fallback_sunrise_sunset(date_obj, latitude, longitude, TIMEZONE)
fallback_sunrise_sunset(n, latitude, longitude) ==
    LET c  == some_cos(n, latitude, longitude)
        tr == J_transit(n, longitude)
        sunrise_j == IF c <= 0 - 10000 THEN tr - 12 * SecondsPerHour
                     ELSE IF c >= 10000 THEN None
                     ELSE tr - hour_angle_days(c)
        sunset_j  == IF c <= 0 - 10000 THEN None
                     ELSE IF c >= 10000 THEN None
                     ELSE tr + hour_angle_days(c)
    IN  [sunrise |-> julian_to_dt(sunrise_j), sunset |-> julian_to_dt(sunset_j)]

\* 20 and 31 March, 21 June, 22 September, 27 October and 21 December 2024
SolarDates == {8845, 8856, 8938, 9031, 9066, 9121}

\* latitudes from pole to pole, in hundredths of a degree
SolarLatitudes ==
    {0 - 9000, 0 - 8000, 0 - 6640, 0 - 6570, 0 - 5200, 0, 3000, 5200, 6570, 6640, 6800,
     8000, 9000}

SolarLongitudes == {0 - 18000, 0 - 16500, 0 - 7500, 0, 490, 12000, 18000}

InitSolar ==
    /\ row \in [Datum : SolarDates, lat : SolarLatitudes, lon : SolarLongitudes]
    /\ out = [sunrise |-> <<>>, sunset |-> <<>>]
    /\ check_data = ""
    /\ pc = "location"
    /\ napply = 0

\* sr, ss = _fallback_sunrise_sunset(dt, lat, lon, TIMEZONE)
estimate ==
    /\ pc = "location"
    /\ out' = fallback_sunrise_sunset(row.Datum, row.lat, row.lon)
    /\ pc' = "estimated"
    /\ UNCHANGED <<row, check_data, napply>>

NextSolar == estimate

SpecSolar == InitSolar /\ [][NextSolar]_vars

Estimated == pc = "estimated"

\* the cosine of the hour angle and the transit of the row
RowCos == some_cos(row.Datum, row.lat, row.lon)

RowTransit == J_transit(row.Datum, row.lon)

(* C19: with c the cosine of the hour angle, the estimator returns the
   sunrise transit - 12h and no sunset when c <= -1, neither when c >= 1,
   and otherwise the sunrise transit - H and the sunset transit + H, H being
   the hour angle acos(c) as a fraction of a day. *)
C19_BranchesOnCosine ==
    Estimated =>
        /\ RowCos <= 0 - 10000 =>
              /\ out.sunrise # <<>> /\ out.sunrise[1] = RowTransit - 12 * SecondsPerHour
              /\ out.sunset = <<>>
        /\ RowCos >= 10000 => (out.sunrise = <<>> /\ out.sunset = <<>>)
        /\ (RowCos > 0 - 10000 /\ RowCos < 10000) =>
              /\ out.sunrise # <<>> /\ out.sunset # <<>>
              /\ out.sunrise[1] = RowTransit - (acos_deg(RowCos) * SecondsPerDay) \div 36000
              /\ out.sunset[1] = RowTransit + (acos_deg(RowCos) * SecondsPerDay) \div 36000

\* latitude 80 north on 21 June: polar day, a sunrise twelve hours before
\* the transit and no sunset
C19_Witness ==
    /\ Estimated
    /\ row.Datum = 8938 /\ row.lat = 8000
    /\ RowCos <= 0 - 10000
    /\ out.sunrise # <<>> /\ out.sunrise[1] = RowTransit - 12 * SecondsPerHour
    /\ out.sunset = <<>>

(* C20: the estimator never returns a sunrise that is later than the sunset
   it returns with it; it never returns a sunset without a sunrise; and in
   the polar cases, c <= -1 or c >= 1, it returns one of the two at most. *)
C20_SunriseNotAfterSunset ==
    Estimated =>
        /\ (out.sunrise # <<>> /\ out.sunset # <<>>) => out.sunrise[1] <= out.sunset[1]
        /\ out.sunset # <<>> => out.sunrise # <<>>
        /\ (RowCos <= 0 - 10000 \/ RowCos >= 10000) =>
              (out.sunrise = <<>> \/ out.sunset = <<>>)

\* latitude 52 north, longitude 4.9 east on 21 June: a sunrise and a sunset
\* more than sixteen hours after it, both in summer time
C20_Witness ==
    /\ Estimated
    /\ row.Datum = 8938 /\ row.lat = 5200 /\ row.lon = 490
    /\ out.sunrise # <<>> /\ out.sunset # <<>>
    /\ out.sunset[1] - out.sunrise[1] > 16 * SecondsPerHour
    /\ out.sunrise[2] = 2 * SecondsPerHour /\ out.sunset[2] = 2 * SecondsPerHour

\* the calendar day, in the zone of the datetime, that a datetime the
\* estimator returned falls on: dt.date() as a day number
local_date(dt) == (dt[1] + dt[2]) \div SecondsPerDay

\* both returned, the sunrise not after the sunset, and both on the
\* requested day, the day before it or the day after it
C21_BothWithinADay ==
    /\ out.sunrise # <<>> /\ out.sunset # <<>>
    /\ out.sunrise[1] <= out.sunset[1]
    /\ local_date(out.sunrise) \in (row.Datum - 1)..(row.Datum + 1)
    /\ local_date(out.sunset) \in (row.Datum - 1)..(row.Datum + 1)

Abs(x) == IF x < 0 THEN 0 - x ELSE x

(* C21 as stated: for every date, every longitude and every latitude with
   |lat| < 66.5 degrees the estimator returns a sunrise and a sunset, the
   sunrise not after the sunset, both within one day of the requested
   local calendar day. *)
C21_BelowPolarCircle ==
    (Estimated /\ Abs(row.lat) < 6650) => C21_BothWithinADay

(* C21 as amended: the same for every latitude with |lat| <= 65.7 degrees
   and every longitude from -180 to 180 degrees, in the zone
   Europe/Amsterdam; the refraction and disc height of -0.833 degrees move
   the latitude of the midnight sun from 66.56 to 65.73 degrees. *)
C21_BelowRefractedPolarCircle ==
    (Estimated /\ Abs(row.lat) <= 6570 /\ Abs(row.lon) <= 18000) => C21_BothWithinADay

\* latitude 65.7 north, longitude 180 east on 21 June: the sunrise is on
\* the requested day and the sunset on the day after it
C21_Witness ==
    /\ Estimated
    /\ row.Datum = 8938 /\ row.lat = 6570 /\ row.lon = 18000
    /\ out.sunrise # <<>> /\ out.sunset # <<>>
    /\ out.sunrise[1] < out.sunset[1]
    /\ local_date(out.sunrise) = row.Datum
    /\ local_date(out.sunset) = row.Datum + 1

---------------------------------------------------------------------------
(* Sun-times pass: the loop of get_fieldvisit_suntimes over the rows of
   loc_date, without Astral.  row is the table, a sequence of rows of three
   cells Datum, lat and lon; a cell is [kind, v]: "num" for the number or
   date v, "nan" for the NaN or NaT that pd.to_numeric and pd.to_datetime
   give with errors="coerce" for a missing or unparseable value, "inf" for
   the infinity pd.to_numeric reads from the text inf.  out holds
   sunrise_list and sunset_list, and after the loop the columns sunrise and
   sunset of the table.  pc: "sun_rows" -> "sun_listed" -> "sun_assigned",
   or "raised" if an exception left the function. *)

Num(v) == [kind |-> "num", v |-> v]

NaN == [kind |-> "nan", v |-> 0]

Inf == [kind |-> "inf", v |-> 0]

\* pd.isna(lat), pd.isna(lon), pd.isna(dt)
pd_isna(x) == x.kind = "nan"

\* sin(radians(latitude)) and fmod(..., 360.0) raise ValueError, math domain
\* error, for an infinite latitude or longitude
math_domain_error(lat, lon) == lat.kind = "inf" \/ lon.kind = "inf"

SunRows ==
    {[Datum |-> Num(8938), lat |-> Num(5200), lon |-> Num(490)],
     [Datum |-> Num(8938), lat |-> Num(8000), lon |-> Num(490)],
     [Datum |-> Num(9121), lat |-> Num(8000), lon |-> Num(490)],
     [Datum |-> NaN, lat |-> Num(5200), lon |-> Num(490)],
     [Datum |-> Num(8938), lat |-> NaN, lon |-> Num(490)],
     [Datum |-> Num(8938), lat |-> Num(5200), lon |-> NaN],
     [Datum |-> Num(8938), lat |-> Inf, lon |-> Num(490)],
     [Datum |-> Num(9121), lat |-> Num(5200), lon |-> Inf]}

InitSuntimes ==
    /\ row \in UNION {[1..n -> SunRows] : n \in 1..MaxRows}
    /\ out = [sunrise_list |-> <<>>, sunset_list |-> <<>>, sunrise |-> <<>>, sunset |-> <<>>]
    /\ check_data = ""
    /\ pc = "sun_rows"
    /\ napply = 0

\* the loop without its try: the ValueError leaves the function
sun_loopNoTry ==
    /\ pc = "sun_rows"
    /\ LET i == Len(out.sunrise_list) + 1
           r == row[i]
       IN  IF pd_isna(r.lat) \/ pd_isna(r.lon) \/ pd_isna(r.Datum)
           THEN /\ out' = [out EXCEPT !.sunrise_list = Append(@, <<>>),
                                      !.sunset_list = Append(@, <<>>)]
                /\ pc' = IF i = Len(row) THEN "sun_listed" ELSE "sun_rows"
           ELSE IF math_domain_error(r.lat, r.lon)
           THEN /\ out' = out
                /\ pc' = "raised"
           ELSE LET sr_ss == fallback_sunrise_sunset(r.Datum.v, r.lat.v, r.lon.v)
                IN  /\ out' = [out EXCEPT !.sunrise_list = Append(@, sr_ss.sunrise),
                                          !.sunset_list = Append(@, sr_ss.sunset)]
                    /\ pc' = IF i = Len(row) THEN "sun_listed" ELSE "sun_rows"
    /\ UNCHANGED <<row, check_data, napply>>

\* for _, row in loc_date.iterrows(): one turn of the loop
sun_loop ==
    /\ pc = "sun_rows"
    /\ LET i == Len(out.sunrise_list) + 1
           r == row[i]
       IN  /\ IF pd_isna(r.lat) \/ pd_isna(r.lon) \/ pd_isna(r.Datum)
              THEN out' = [out EXCEPT !.sunrise_list = Append(@, <<>>),
                                      !.sunset_list = Append(@, <<>>)]
              ELSE IF math_domain_error(r.lat, r.lon)
              \* except Exception:
              THEN out' = [out EXCEPT !.sunrise_list = Append(@, <<>>),
                                      !.sunset_list = Append(@, <<>>)]
              ELSE LET sr_ss == fallback_sunrise_sunset(r.Datum.v, r.lat.v, r.lon.v)
                   IN  out' = [out EXCEPT !.sunrise_list = Append(@, sr_ss.sunrise),
                                          !.sunset_list = Append(@, sr_ss.sunset)]
           /\ pc' = IF i = Len(row) THEN "sun_listed" ELSE "sun_rows"
    /\ UNCHANGED <<row, check_data, napply>>

\* loc_date["sunrise"] = sunrise_list; loc_date["sunset"] = sunset_list
assign_suntimes ==
    /\ pc = "sun_listed"
    /\ out' = [out EXCEPT !.sunrise = out.sunrise_list, !.sunset = out.sunset_list]
    /\ pc' = "sun_assigned"
    /\ UNCHANGED <<row, check_data, napply>>

NextSuntimes ==
    \/ sun_loop
    \/ assign_suntimes

SpecSuntimes == InitSuntimes /\ [][NextSuntimes]_vars

\* the row has no usable latitude, longitude or date, or its computation
\* raises
BadSunRow(r) ==
    \/ r.lat.kind # "num" \/ r.lon.kind # "num" \/ r.Datum.kind # "num"

(* C22: in the sun-times pass no exception leaves the loop; a row whose
   latitude, longitude or date is missing or unparseable, or whose
   computation raises, gets no sunrise and no sunset; every other row gets
   the pair the estimator gives for it alone; and the columns have one pair
   for each row of the table, in the order of the rows. *)
C22_BadRowsGetNulls ==
    /\ pc # "raised"
    /\ Len(out.sunrise_list) = Len(out.sunset_list)
    /\ \A i \in 1..Len(out.sunrise_list) :
          IF BadSunRow(row[i])
          THEN out.sunrise_list[i] = <<>> /\ out.sunset_list[i] = <<>>
          ELSE LET sr_ss == fallback_sunrise_sunset(row[i].Datum.v, row[i].lat.v, row[i].lon.v)
               IN  out.sunrise_list[i] = sr_ss.sunrise /\ out.sunset_list[i] = sr_ss.sunset
    /\ pc = "sun_assigned" =>
          /\ Len(out.sunrise) = Len(row) /\ Len(out.sunset) = Len(row)
          /\ out.sunrise = out.sunrise_list /\ out.sunset = out.sunset_list

\* a row with an infinite latitude between two rows of latitude 52: the
\* first and the third have their sunrise and sunset, the second has none
C22_Witness ==
    /\ pc = "sun_assigned"
    /\ Len(row) = 3
    /\ row[1].lat = Num(5200) /\ row[2].lat = Inf /\ row[3].lat = Num(5200)
    /\ ~BadSunRow(row[1]) /\ ~BadSunRow(row[3])
    /\ out.sunrise[1] # <<>> /\ out.sunset[1] # <<>>
    /\ out.sunrise[2] = <<>> /\ out.sunset[2] = <<>>
    /\ out.sunrise[3] = out.sunrise[1] /\ out.sunset[3] = out.sunset[1]

---------------------------------------------------------------------------
(* Timestamp normaliser on its own: parse_local and to_local applied to one
   value.  row is the value, out the two results.  pc: "value" ->
   "normalised". *)

\* timestamps of the modelled days, naive and aware, and the values that are
\* no timestamp
NormaliseCells ==
    [tz : {"naive", "utc", "local"},
     t : {DT(d, h, m, 0) : d \in Days, h \in {0, 6, 12, 18, 23}, m \in {0, 30}}]
    \cup {NoneCell, TextCell}

\* datetimes of the last day of the calendar, and pd.NaT
EdgeCells ==
    [tz : {"naive", "utc", "local"}, t : {DT(LastDay, 12, 0, 0), DT(LastDay, 23, 30, 0)}]
    \cup {[tz |-> "nat", t |-> 0]}

InitNormalise ==
    /\ row \in NormaliseCells
    /\ out = [parse_local |-> None, to_local |-> None]
    /\ check_data = ""
    /\ pc = "value"
    /\ napply = 0

InitNormaliseAny ==
    /\ row \in NormaliseCells \cup EdgeCells
    /\ out = [parse_local |-> None, to_local |-> None]
    /\ check_data = ""
    /\ pc = "value"
    /\ napply = 0

normalise ==
    /\ pc = "value"
    /\ out' = [parse_local |-> parse_local(row), to_local |-> to_local(row)]
    /\ pc' = "normalised"
    /\ UNCHANGED <<row, check_data, napply>>

NextNormalise == normalise

\* the timestamps of the modelled days
SpecNormalise == InitNormalise /\ [][NextNormalise]_vars

\* with the ends of the calendar and pd.NaT
SpecNormaliseAny == InitNormaliseAny /\ [][NextNormalise]_vars

Normalised == pc = "normalised"

(* C23: for a naive timestamp parse_local keeps the wall clock and labels it
   with the local zone, and to_local takes it as UTC and gives the wall
   clock of that instant in the local zone, the UTC offset later; for an
   aware timestamp both give the same instant in the local zone. *)
C23_NaiveLocalOrUTC ==
    Normalised =>
        /\ row.tz = "naive" =>
              /\ out.parse_local = row.t
              /\ out.to_local = row.t + UtcOffset
        /\ row.tz = "utc" =>
              /\ out.parse_local - UtcOffset = row.t
              /\ out.to_local = out.parse_local
        /\ row.tz = "local" =>
              /\ out.parse_local = row.t
              /\ out.to_local = out.parse_local

\* the naive 23:30 of the anchor day: parse_local keeps 23:30, to_local
\* gives 00:30 of the next day
C23_Witness ==
    /\ Normalised
    /\ row = [tz |-> "naive", t |-> DT(AnchorDay, 23, 30, 0)]
    /\ out.parse_local = DT(AnchorDay, 23, 30, 0)
    /\ out.to_local = DT(AnchorDay + 1, 0, 30, 0)

(* C24: parse_local and to_local never raise; for a string that does not
   parse, an empty string, a null, a value of another type, and for any
   failure inside the conversion of a timestamp, they return None. *)
C24_NeverRaise ==
    Normalised =>
        /\ out.parse_local # Raised /\ out.to_local # Raised
        /\ row.tz \in {"none", "nat", "text"} =>
              (out.parse_local = None /\ out.to_local = None)

---------------------------------------------------------------------------
(* The engine on tables with and without the columns sunrise and sunset *)

AnchoredRows ==
    [Naam : GZRows.names \cup VM01EveningRows.names \cup OtherRows.names,
     Startdatum : GenericStarts,
     Einddatum : {NoneCell, [tz |-> "naive", t |-> DT(AnchorDay, 23, 30, 0)]},
     sunrise : SunriseCells, sunset : SunsetCells]

\* the rows with and without each of the two optional columns
OptionalRows ==
    {[c \in DOMAIN r \ cols |-> r[c]] : r \in AnchoredRows, cols \in SUBSET {"sunrise", "sunset"}}

InitOptional ==
    /\ row \in OptionalRows
    /\ out = NoOut
    /\ check_data = ""
    /\ pc = "input"
    /\ napply = 0

SpecOptional == InitOptional /\ [][Next]_vars

(* C25: the engine accepts a table with the columns Startdatum, Einddatum
   and Naam only; without the column sunrise or sunset it still returns
   Project, Dagdeel, the suggested start and end and the duration of every
   row, with the corrections that need the missing anchor skipped: the
   reported times as parsed. *)
C25_AnchorColumnsOptional ==
    (Ran /\ ~({"sunrise", "sunset"} \subseteq DOMAIN row) /\ napply = 0) =>
        /\ pc # "raised"
        /\ out.Project = projects_dagdelen[row.Naam][1]
        /\ out.Dagdeel = projects_dagdelen[row.Naam][2]
        /\ ~("sunrise" \in DOMAIN row) => out.sunrise_local = None
        /\ ~("sunset" \in DOMAIN row) => out.sunset_local = None
        /\ DOMAIN row = {"Naam", "Startdatum", "Einddatum"} =>
              /\ out.Starttijd_Suggest = rep_start
              /\ out.Eindtijd_Suggest = rep_end
              /\ out.duur_suggest = duration(rep_start, rep_end)

---------------------------------------------------------------------------
(* reverse_geocode of geocode_utils, with geopy.  row is the call: the table
   as the sequence index of its index labels and the sequence rows of its
   rows in the same order, a row being [key, selected] with key its
   "lat,lon" ("nan" when a coordinate is missing) and selected whether its
   behaviour is among the requested ones; cache_file, whether a cache file
   is given; loaded, the entries of that file.  A cache is a function from
   the keys to addresses, NoAddr for a key it does not hold.  out is the
   state of the call: cache, the list addresses, pos the number of index
   labels the loop has taken, requests the calls made to the geocoding
   service, each [key, ok], persisted the content of the cache file, and
   address the column of the returned table.  pc: "geo_rows" ->
   "geo_listed" -> "geo_done", or "raised" when an exception leaves the
   function. *)

NoAddr == "None"

Keys == {"52.1,4.9", "52.3,5.0"}

\* location.address of the service for a key
Service == [k \in Keys |-> IF k = "52.1,4.9" THEN "Dam 1, Amsterdam" ELSE "Kade 2, Almere"]

EmptyCache == [k \in Keys |-> NoAddr]

LoadedCaches == {EmptyCache, [EmptyCache EXCEPT !["52.1,4.9"] = "Dam 1 (cached)"]}

GeoRows == [key : Keys \cup {"nan"}, selected : {TRUE}] \cup [key : {"52.1,4.9"}, selected : {FALSE}]

\* the index of a table of n rows: the default 0..n-1, the default in
\* reverse order (rows sorted again), and 1..n (the first row of a longer
\* table filtered away)
Indexes(n) == {[i \in 1..n |-> i - 1], [i \in 1..n |-> n - i], [i \in 1..n |-> i]}

GeoCalls ==
    UNION {[index : Indexes(n), rows : [1..n -> GeoRows], cache_file : BOOLEAN,
            loaded : LoadedCaches] : n \in 1..MaxRows}

InitGeocode ==
    /\ row \in {c \in GeoCalls : c.cache_file \/ c.loaded = EmptyCache}
    /\ out = [cache |-> row.loaded,
              addresses |-> [i \in 1..Len(row.rows) |-> NoAddr],
              pos |-> 0, requests |-> <<>>,
              persisted |-> row.loaded,
              address |-> <<>>]
    /\ check_data = ""
    /\ pc = "geo_rows"
    /\ napply = 0

\* mask = df[lat_col].notna() & df[lon_col].notna(), and the behaviours
mask(r) == r.key # "nan" /\ r.selected

\* the lookup of a key with the cache ignored
lookupUncached(cache, key, ok) ==
    IF ok THEN [addr |-> Service[key], cache |-> [cache EXCEPT ![key] = Service[key]],
                requested |-> TRUE]
    ELSE [addr |-> NoAddr, cache |-> cache, requested |-> TRUE]

\* addr = cache.get(key); if addr is None: the request, which succeeds (ok)
\* or raises or finds nothing; if addr is not None: cache[key] = addr
lookup(cache, key, ok) ==
    IF cache[key] # NoAddr THEN [addr |-> cache[key], cache |-> cache, requested |-> FALSE]
    ELSE IF ok THEN [addr |-> Service[key], cache |-> [cache EXCEPT ![key] = Service[key]],
                     requested |-> TRUE]
    ELSE [addr |-> NoAddr, cache |-> cache, requested |-> TRUE]

\* for idx in df.index: one turn of the loop.  addresses[idx] = addr takes
\* the index label as a position in the list: IndexError for a label that
\* is no position
geocode_row ==
    /\ pc = "geo_rows"
    /\ LET p   == out.pos + 1
           idx == row.index[p]
           r   == row.rows[p]
           n   == Len(row.rows)
       IN  IF ~mask(r)
           THEN /\ out' = [out EXCEPT !.pos = p]
                /\ pc' = IF p = n THEN "geo_listed" ELSE "geo_rows"
           ELSE \E ok \in BOOLEAN :
                  LET l == lookup(out.cache, r.key, ok)
                      requests == IF l.requested
                                  THEN Append(out.requests, [key |-> r.key, ok |-> ok])
                                  ELSE out.requests
                  IN  IF idx < n
                      THEN /\ out' = [out EXCEPT !.pos = p, !.cache = l.cache,
                                                 !.requests = requests,
                                                 !.addresses[idx + 1] = l.addr]
                           /\ pc' = IF p = n THEN "geo_listed" ELSE "geo_rows"
                      ELSE /\ out' = [out EXCEPT !.pos = p, !.cache = l.cache,
                                                 !.requests = requests]
                           /\ pc' = "raised"
    /\ UNCHANGED <<row, check_data, napply>>

\* json.dump(cache, f) if cache_file; df["address"] = addresses; return df
save_and_return ==
    /\ pc = "geo_listed"
    /\ out' = [out EXCEPT !.persisted = IF row.cache_file THEN out.cache ELSE @,
                          !.address = out.addresses]
    /\ pc' = "geo_done"
    /\ UNCHANGED <<row, check_data, napply>>

NextGeocode ==
    \/ geocode_row
    \/ save_and_return

SpecGeocode == InitGeocode /\ [][NextGeocode]_vars

\* the loaded entries and the successful lookups made so far
LoadedPlusSuccessful ==
    [k \in Keys |->
        IF row.loaded[k] # NoAddr THEN row.loaded[k]
        ELSE IF \E i \in 1..Len(out.requests) : out.requests[i] = [key |-> k, ok |-> TRUE]
             THEN Service[k]
             ELSE NoAddr]

(* C26: a key that is in the cache, loaded from the file or stored earlier
   in the run, is never requested from the service, so no key is requested
   again after a successful request; the cache holds the loaded entries and
   every successful lookup and no failed one; and when the call has
   finished with a cache file, the file holds that cache. *)
C26_CachedNeverRequested ==
    /\ \A i \in 1..Len(out.requests) :
          /\ row.loaded[out.requests[i].key] = NoAddr
          /\ \A j \in 1..Len(out.requests) :
                (i < j /\ out.requests[i].key = out.requests[j].key) => ~out.requests[i].ok
    /\ out.cache = LoadedPlusSuccessful
    /\ (pc = "geo_done" /\ row.cache_file) => out.persisted = LoadedPlusSuccessful

\* three rows of the same coordinate with nothing loaded: the first request
\* fails, the second succeeds, the third row is served from the cache, and
\* the file holds the one address
C26_Witness ==
    /\ pc = "geo_done" /\ row.cache_file /\ row.loaded = EmptyCache
    /\ Len(row.rows) = 3
    /\ \A i \in 1..3 : row.rows[i] = [key |-> "52.1,4.9", selected |-> TRUE]
    /\ out.requests = <<[key |-> "52.1,4.9", ok |-> FALSE], [key |-> "52.1,4.9", ok |-> TRUE]>>
    /\ out.persisted = [EmptyCache EXCEPT !["52.1,4.9"] = "Dam 1, Amsterdam"]

(* C30: for any index of the table, reverse_geocode does not raise because
   of the index, gives None to every row outside the mask, and gives every
   row inside it the address resolved for its own coordinates: the one the
   cache holds for its key, or None when its lookup failed. *)
C30_AddressByRowForAnyIndex ==
    /\ pc # "raised"
    /\ pc = "geo_done" =>
          /\ Len(out.address) = Len(row.rows)
          /\ \A p \in 1..Len(row.rows) :
                IF mask(row.rows[p])
                THEN out.address[p] \in {NoAddr, out.cache[row.rows[p].key]}
                ELSE out.address[p] = NoAddr

---------------------------------------------------------------------------
\* t moved to target when it is present and outside [lo, hi]
Corrected(t, lo, hi, target) == IF t # None /\ ~Within(t, lo, hi) THEN target ELSE t

(* C27: the rule sets are checked one after the other, each on the start
   and end the one before it left; for a code that contains both GZ and ZR,
   with the sunset and the sunrise present, the suggested start and end are
   those of the ZR correction applied to the result of the GZ correction. *)
C27_GZThenZR ==
    (/\ pc = "adjusted"
     /\ Contains(CodeUpper, GZ) /\ Contains(CodeUpper, ZR)
     /\ ss # None /\ sr # None) =>
        LET gz_start == Corrected(row.Starttijd_Suggest, ss - timedelta_minutes(150),
                                  ss - timedelta_minutes(90), ss - timedelta_minutes(90))
            gz_end   == Corrected(row.Eindtijd_Suggest, ss + timedelta_minutes(30),
                                  ss + timedelta_minutes(90), ss + timedelta_minutes(30))
        IN  /\ sug_start = Corrected(gz_start, sr - timedelta_minutes(150),
                                     sr - timedelta_minutes(90), sr - timedelta_minutes(90))
            /\ sug_end = Corrected(gz_end, sr + timedelta_minutes(30),
                                   sr + timedelta_minutes(90), sr + timedelta_minutes(30))

\* the code GZ-ZR with a start of 04:00, inside the ZR window and outside
\* the GZ one: GZ moves it to 18:30 and ZR then to 04:30, so it is not the
\* 04:00 that ZR alone would keep
C27_Witness ==
    /\ pc = "adjusted"
    /\ row.Project = <<"G", "Z", "-", "Z", "R">>
    /\ ss = DT(AnchorDay, 20, 0, 0) /\ sr = DT(AnchorDay, 6, 0, 0)
    /\ row.Starttijd_Suggest = DT(AnchorDay, 4, 0, 0)
    /\ row.Eindtijd_Suggest = DT(AnchorDay, 21, 0, 0)
    /\ sug_start = DT(AnchorDay, 4, 30, 0)
    /\ sug_end = DT(AnchorDay, 6, 30, 0)

---------------------------------------------------------------------------
\* the row matches a rule and the anchor that rule needs is present
MatchesRuleWithAnchor ==
    \/ IsCode(VM01) /\ IsEvening /\ ss # None
    \/ IsCode(VM01) /\ IsMorning /\ sr # None
    \/ IsCode(VM02) /\ IsEvening
    \/ HasCode(GZ) /\ ss # None
    \/ HasCode(ZR) /\ sr # None

(* C28: for a row that matches a rule, with both reported times present and
   the anchor of the rule present (none is needed for VM02 evening), the
   suggested end is not before the suggested start: the duration is not
   negative. *)
C28_EndNotBeforeStart ==
    (Ran /\ MatchesRuleWithAnchor /\ rep_start # None /\ rep_end # None) =>
        /\ sug_start # None /\ sug_end # None
        /\ sug_end >= sug_start
        /\ out.duur_suggest[1] >= 0

---------------------------------------------------------------------------
(* The engine applied to its own result for as long as the result changes *)

\* the row with the suggested start and end as its reported ones
Fedback == [row EXCEPT !.Startdatum = AsCell(out.Starttijd_Suggest),
                       !.Einddatum = AsCell(out.Eindtijd_Suggest)]

\* one more application, taken only when it changes the result; no more
\* than MaxDay + 2 of them are followed
ReapplyWhileChanged ==
    /\ pc = "suggested"
    /\ napply < MaxDay + 2
    /\ time_suggest(Fedback) # out
    /\ row' = Fedback
    /\ out' = time_suggest(Fedback)
    /\ napply' = napply + 1
    /\ UNCHANGED <<check_data, pc>>

NextFixedPoint ==
    \/ get_fieldvisit_time_suggest
    \/ ReapplyWhileChanged

SpecFixedPoint == Init /\ [][NextFixedPoint]_vars

\* one more application changes nothing
FixedPoint == pc = "suggested" /\ time_suggest(Fedback) = out

(* C29: the engine applied again and again to its own result reaches a
   result that a further application leaves unchanged, after finitely many
   applications: no more re-applications than the days between the
   reported end and start; and at that result a VM02 evening row with both
   times present has its suggested end strictly after its suggested
   start. *)
C29_ReachesFixedPoint ==
    /\ napply <= MaxDay
    /\ (pc = "suggested" /\ napply = MaxDay) => FixedPoint
    /\ (FixedPoint /\ IsCode(VM02) /\ IsEvening /\ sug_start # None /\ sug_end # None) =>
          sug_end > sug_start

\* the VM02 evening row reported from 23:30 to 23:45 of day 0: the first
\* application leaves the end at 03:00 of day 0, the second puts it at 03:00
\* of day 1, and a third changes nothing
C29_Witness ==
    /\ FixedPoint /\ napply = 1
    /\ IsCode(VM02) /\ IsEvening
    /\ sug_start = DT(0, 23, 30, 0)
    /\ sug_end = DT(1, 3, 0, 0)

=============================================================================
